---- MODULE Spec2Model ----
(***************************************************************************)
(* Model of klemme's serial I/O coordinator (src/src/portthread.rs) and    *)
(* of the front end's use of its two channels.                             *)
(*                                                                         *)
(* The coordinator thread is a loop.  One iteration is modelled by three   *)
(* program positions: "cmd" (receive_command and the match on the command),*)
(* "write" (p.write in send_receive) and "read" (p.read in send_receive    *)
(* followed by handle_received_bytes).  The front end sends commands and   *)
(* drains events between any two of these steps.  Local::now() is the      *)
(* variable now, in milliseconds; Tick lets the clock advance.             *)
(***************************************************************************)
EXTENDS Integers, Sequences, FiniteSets, TLC

VARIABLES
    state,            \* PortThreadState of the coordinator
    last_entry,       \* the pending HistoryEntry (last_entry)
    data_to_send,     \* the loop's local data_to_send
    pc,               \* position of the coordinator inside one iteration
    cmd_chan,         \* command channel: SerialCommands in flight
    events,           \* event channel: SerialStateMessages in flight
    display_history,  \* AnalyzerMode::display_history of the front end
    now,              \* the wall clock read by Local::now(), in ms
    dropped,          \* SerialContexts that have been dropped (port closed)
    next_ctx,         \* number of SerialContexts the front end has created
    n_cmds,           \* number of commands the front end has sent
    n_reads,          \* number of port reads that returned Ok
    produced,         \* history: every event the coordinator has sent
    iter_cmd,         \* history: the command consumed by the current iteration
    iter_pre,         \* history: state and last_entry when the iteration began
    iter_log,         \* history: port operations and events of the iteration
    wire,             \* history: every buffer handed to p.write
    stopped_sends,    \* history: bytes of the Sends consumed while Stopped
    front_alive,      \* the App (command sender, event receiver) still exists
    sent_at,          \* history: for each Stop in flight, the coordinator's
                      \*   state and the channel's length when it was sent
    pending_reads,    \* history: the reads (time, chunk, Running period) that
                      \*   make up last_entry
    analyzer,         \* AnalyzerMode without its display_history: scroll
                      \*   offset, cursor, endianness, display mode
    analyzer_view,    \* the frame the last AnalyzerMode::render has drawn
    settings,         \* SettingsMode: the selected port parameters
    settings_out,     \* what the last operation of SettingsMode did
    config_file,      \* the file .klemme of the working directory
    interactive,      \* InteractiveMode: send_buffer and input_mode
    interactive_out,  \* outcome of the last send_tx_buffer
    app               \* App of main.rs: mode, and the commands it has sent

\* the coordinator, its channels and their history
coord_vars == <<state, last_entry, data_to_send, pc, cmd_chan, events,
                display_history, now, dropped, next_ctx, n_cmds, n_reads,
                produced, iter_cmd, iter_pre, iter_log, wire, stopped_sends,
                front_alive, sent_at, pending_reads>>

\* the modes of the front end
ui_vars == <<analyzer, analyzer_view, settings, settings_out, config_file,
             interactive, interactive_out, app>>

vars == <<coord_vars, ui_vars>>

---------------------------------------------------------------------------
(* Bounds of the model *)

MaxCmds == 3       \* commands the front end sends in one behaviour
MaxReads == 2      \* port reads that return Ok in one behaviour
MaxTime == 5       \* the clock stops advancing on its own at this value, in ms

\* ms that pass between the two Local::now() of one handle_received_bytes call
Drifts == {0, 1}

\* The k-th command, if a Send, carries no byte or the byte k; the k-th
\* successful read returns no byte or the bytes RxBase + k, RxBase + k: every
\* payload names its origin, and sent and received byte values are disjoint.
RxBase == 100
TxPayloads(k) == {<<>>, <<k>>}
RxChunks(k) == {<<>>, <<RxBase + k, RxBase + k>>}

---------------------------------------------------------------------------
(* Data types *)

COALESCE_MS == 5                       \* `if ms < 5` in handle_received_bytes
WRITE_ERROR_TEXT == "Failed to write to port"

NoCtx == 0

\* enum PortThreadState { Stopped, Running(SerialContext) }
Stopped == [tag |-> "Stopped", ctx |-> NoCtx]
Running(c) == [tag |-> "Running", ctx |-> c]

\* enum SerialCommand { Stop, Start(SerialContext), Send(Vec<u8>) }
CmdStop == [type |-> "Stop", ctx |-> NoCtx, data |-> <<>>]
CmdStart(c) == [type |-> "Start", ctx |-> c, data |-> <<>>]
CmdSend(d) == [type |-> "Send", ctx |-> NoCtx, data |-> d]
NoCmd == [type |-> "None", ctx |-> NoCtx, data |-> <<>>]

\* struct HistoryEntry { timestamp, rx_tx, data }
HistoryEntry(t, dir, d) == [timestamp |-> t, rx_tx |-> dir, data |-> d]

\* HistoryEntry::default(): timestamp Local::now(), Rx, no data
HistoryEntryDefault(t) == HistoryEntry(t, "Rx", <<>>)

\* enum SerialStateMessage { DataEvent(HistoryEntry), ErrorEvent(String), Started, Stopped }
NoEntry == HistoryEntry(0, "-", <<>>)
EvStarted == [type |-> "Started", entry |-> NoEntry, text |-> ""]
EvStopped == [type |-> "Stopped", entry |-> NoEntry, text |-> ""]
DataEvent(e) == [type |-> "DataEvent", entry |-> e, text |-> ""]
ErrorEvent(s) == [type |-> "ErrorEvent", entry |-> NoEntry, text |-> s]

---------------------------------------------------------------------------
(* History (ghost) records of one iteration *)

NoEv == [type |-> "None", entry |-> NoEntry, text |-> ""]
LogEmit(ev, t) == [k |-> "emit", ev |-> ev, data |-> <<>>, ok |-> TRUE, t |-> t]
LogWrite(d, ok, t) == [k |-> "write", ev |-> NoEv, data |-> d, ok |-> ok, t |-> t]
LogRead(d, ok, t) == [k |-> "read", ev |-> NoEv, data |-> d, ok |-> ok, t |-> t]

RECURSIVE LogEmits(_, _)
LogEmits(evs, t) ==
    IF evs = <<>> THEN <<>>
    ELSE <<LogEmit(Head(evs), t)>> \o LogEmits(Tail(evs), t)

\* when a Stop was sent: the tag of the coordinator's state and the number of
\* commands in the channel ahead of it; NoSentAt for the other commands
SentAt(tag, ahead) == [tag |-> tag, ahead |-> ahead]
NoSentAt == SentAt("-", 0)

\* the Running period an event sequence has reached: the number of Started
\* events sent so far
Period(evs) == Len(SelectSeq(evs, LAMBDA e : e.type = "Started"))

\* a port read: when it returned, what it returned, and the Running period
\* it was made in
ReadAt(t, chunk, evs) == [t |-> t, data |-> chunk, period |-> Period(evs)]

\* the bytes of a payload, as a set
Bytes(d) == {d[i] : i \in 1..Len(d)}

---------------------------------------------------------------------------
(* The coordinator's functions *)

\* impl PartialEq for PortThreadState: the tags are compared, not the contexts
StateEq(a, b) == a.tag = b.tag

\* RecvBlocks with recv in both branches: receive_command blocks while Running too
RecvBlocks_AnyState(st, ch, connected) == ch = <<>> /\ connected

\* receive_command blocks (rx.recv()) exactly when the state is Stopped, no
\* command is in the channel and a sender still exists
RecvBlocks(st, ch, connected) == StateEq(st, Stopped) /\ ch = <<>> /\ connected

\* receive_command taking the newest command in the channel instead of the oldest
receive_command_Newest(st, ch) ==
    IF StateEq(st, Stopped)
    THEN IF ch # <<>> THEN ch[Len(ch)] ELSE NoCmd
    ELSE IF ch # <<>> THEN ch[Len(ch)] ELSE NoCmd

\* receive_command: Some(command) is the head of the channel, None is NoCmd.
\* rx.recv() gives Err, hence None, only for an empty channel whose senders
\* are gone; rx.try_recv() gives Err, hence None, for any empty channel.
receive_command(st, ch) ==
    IF StateEq(st, Stopped)
    THEN IF ch # <<>> THEN Head(ch) ELSE NoCmd
    ELSE IF ch # <<>> THEN Head(ch) ELSE NoCmd

\* MatchState with the Start arm's guard lost: Start always installs its context
MatchState_StartUnguarded(st, cmd) ==
    CASE cmd.type = "Stop" ->
           IF ~StateEq(st, Stopped) THEN Stopped ELSE st
      [] cmd.type = "Start" -> Running(cmd.ctx)
      [] OTHER -> st

\* MatchState with the Stop arm's assignment lost
MatchState_StopKeeps(st, cmd) ==
    CASE cmd.type = "Start" ->
           IF StateEq(st, Stopped) THEN Running(cmd.ctx) ELSE st
      [] OTHER -> st

\* the state after `match cmd` in port_background_thread
MatchState(st, cmd) ==
    CASE cmd.type = "Stop" ->
           IF ~StateEq(st, Stopped) THEN Stopped ELSE st
      [] cmd.type = "Start" ->
           IF StateEq(st, Stopped) THEN Running(cmd.ctx) ELSE st
      [] OTHER -> st

\* MatchEmit sending Started twice
MatchEmit_StartedTwice(st, cmd) ==
    CASE cmd.type = "Stop" ->
           IF ~StateEq(st, Stopped) THEN <<EvStopped>> ELSE <<>>
      [] cmd.type = "Start" ->
           IF StateEq(st, Stopped) THEN <<EvStarted, EvStarted>> ELSE <<>>
      [] OTHER -> <<>>

\* MatchEmit with the Stop arm's guard lost: every Stop sends Stopped
MatchEmit_StopUnguarded(st, cmd) ==
    CASE cmd.type = "Stop" -> <<EvStopped>>
      [] cmd.type = "Start" ->
           IF StateEq(st, Stopped) THEN <<EvStarted>> ELSE <<>>
      [] OTHER -> <<>>

\* MatchEmit with a flush in the Stop arm: the pending entry is sent before Stopped
MatchEmit_StopFlushes(st, cmd) ==
    CASE cmd.type = "Stop" ->
           IF ~StateEq(st, Stopped) THEN <<DataEvent(last_entry), EvStopped>> ELSE <<>>
      [] cmd.type = "Start" ->
           IF StateEq(st, Stopped) THEN <<EvStarted>> ELSE <<>>
      [] OTHER -> <<>>

\* MatchEmit with the Start arm's guard lost: every Start sends Started
MatchEmit_StartUnguarded(st, cmd) ==
    CASE cmd.type = "Stop" ->
           IF ~StateEq(st, Stopped) THEN <<EvStopped>> ELSE <<>>
      [] cmd.type = "Start" -> <<EvStarted>>
      [] OTHER -> <<>>

\* MatchEmit with the `tx.send(Started)` of the Start arm lost
MatchEmit_StartSilent(st, cmd) ==
    CASE cmd.type = "Stop" ->
           IF ~StateEq(st, Stopped) THEN <<EvStopped>> ELSE <<>>
      [] OTHER -> <<>>

\* MatchEmit with the `tx.send(Stopped)` of the Stop arm lost
MatchEmit_StopSilent(st, cmd) ==
    CASE cmd.type = "Start" ->
           IF StateEq(st, Stopped) THEN <<EvStarted>> ELSE <<>>
      [] OTHER -> <<>>

\* the events `match cmd` sends
MatchEmit(st, cmd) ==
    CASE cmd.type = "Stop" ->
           IF ~StateEq(st, Stopped) THEN <<EvStopped>> ELSE <<>>
      [] cmd.type = "Start" ->
           IF StateEq(st, Stopped) THEN <<EvStarted>> ELSE <<>>
      [] OTHER -> <<>>

\* FreshData with data_to_send declared outside the loop: the bytes survive
FreshData_Keep(d) == d

\* `let mut data_to_send: Vec<u8> = vec![]` at the top of every iteration:
\* whatever the previous iteration left in d is gone
FreshData(d) == <<>>

\* data_to_send after `match cmd`, d being its value before
MatchData(d, cmd) == IF cmd.type = "Send" THEN cmd.data ELSE d

\* MatchDropped with the held context leaked on Stop (its handle stays open)
MatchDropped_StopLeaks(st, cmd) ==
    CASE cmd.type = "Start" ->
           IF StateEq(st, Stopped) THEN {} ELSE {cmd.ctx}
      [] OTHER -> {}

\* the contexts that `match cmd` drops: the held one when the state is
\* overwritten by Stopped, the command's one when Start is ignored
MatchDropped(st, cmd) ==
    CASE cmd.type = "Stop" ->
           IF ~StateEq(st, Stopped) THEN {st.ctx} ELSE {}
      [] cmd.type = "Start" ->
           IF StateEq(st, Stopped) THEN {} ELSE {cmd.ctx}
      [] OTHER -> {}

\* NextPc with the write skipped: send_receive goes straight to the read
NextPc_SkipWrite(st, d) ==
    IF StateEq(st, Stopped) THEN "cmd" ELSE "read"

\* NextPc with the `data_to_send.len() != 0` test lost
NextPc_AlwaysWrite(st, d) ==
    IF StateEq(st, Stopped) THEN "cmd" ELSE "write"

\* the position after the command step: `match state` calls send_receive only
\* when Running, and send_receive writes only if data_to_send.len() != 0
NextPc(st, d) ==
    IF StateEq(st, Stopped) THEN "cmd"
    ELSE IF Len(d) # 0 THEN "write" ELSE "read"

\* WriteEmit with the `else` lost: the Tx DataEvent is sent after a failed write too
WriteEmit_ErrAlsoData(d, ok, t) ==
    IF ok THEN <<DataEvent(HistoryEntry(t, "Tx", d))>>
    ELSE <<ErrorEvent(WRITE_ERROR_TEXT), DataEvent(HistoryEntry(t, "Tx", d))>>

\* WriteEmit with the `else` branch lost: a failed write is reported by no event
WriteEmit_ErrSilent(d, ok, t) ==
    IF ok THEN <<DataEvent(HistoryEntry(t, "Tx", d))>>
    ELSE <<>>

\* WriteEmit with the direction of the entry left at its default, Rx
WriteEmit_AsRx(d, ok, t) ==
    IF ok THEN <<DataEvent(HistoryEntry(t, "Rx", d))>>
    ELSE <<ErrorEvent(WRITE_ERROR_TEXT)>>

\* send_receive, the write: Ok sends a Tx DataEvent stamped Local::now(),
\* Err sends the ErrorEvent
WriteEmit(d, ok, t) ==
    IF ok THEN <<DataEvent(HistoryEntry(t, "Tx", d))>>
    ELSE <<ErrorEvent(WRITE_ERROR_TEXT)>>

\* handle_received_bytes with the window one millisecond short: `ms < 4`
handle_received_bytes_Lt4(le, received_data, t, t2) ==
    LET ms == t - le.timestamp
    IN  IF ms < COALESCE_MS - 1
        THEN [last_entry |-> [le EXCEPT !.data = @ \o received_data],
              out |-> <<>>]
        ELSE [last_entry |-> [le EXCEPT !.data = received_data,
                                        !.timestamp = t2],
              out |-> <<DataEvent(le)>>]

\* handle_received_bytes with the window one millisecond long: `ms <= 5`
handle_received_bytes_Le5(le, received_data, t, t2) ==
    LET ms == t - le.timestamp
    IN  IF ms <= COALESCE_MS
        THEN [last_entry |-> [le EXCEPT !.data = @ \o received_data],
              out |-> <<>>]
        ELSE [last_entry |-> [le EXCEPT !.data = received_data,
                                        !.timestamp = t2],
              out |-> <<DataEvent(le)>>]

\* handle_received_bytes with `last_entry.timestamp = Local::now()` lost: the
\* new pending entry keeps the timestamp of the entry just sent
handle_received_bytes_KeepStamp(le, received_data, t, t2) ==
    LET ms == t - le.timestamp
    IN  IF ms < COALESCE_MS
        THEN [last_entry |-> [le EXCEPT !.data = @ \o received_data],
              out |-> <<>>]
        ELSE [last_entry |-> [le EXCEPT !.data = received_data],
              out |-> <<DataEvent(le)>>]

\* handle_received_bytes with the append replaced by an assignment: a chunk
\* inside the window overwrites the pending bytes
handle_received_bytes_Overwrite(le, received_data, t, t2) ==
    LET ms == t - le.timestamp
    IN  IF ms < COALESCE_MS
        THEN [last_entry |-> [le EXCEPT !.data = received_data],
              out |-> <<>>]
        ELSE [last_entry |-> [le EXCEPT !.data = received_data,
                                        !.timestamp = t2],
              out |-> <<DataEvent(le)>>]

\* handle_received_bytes with a chunk inside the window sent at once as an
\* entry of its own (as the thread of main.rs sends every read) and appended
\* to the pending entry as well
handle_received_bytes_SendsChunk(le, received_data, t, t2) ==
    LET ms == t - le.timestamp
    IN  IF ms < COALESCE_MS
        THEN [last_entry |-> [le EXCEPT !.data = @ \o received_data],
              out |-> <<DataEvent(HistoryEntry(t, "Rx", received_data))>>]
        ELSE [last_entry |-> [le EXCEPT !.data = received_data,
                                        !.timestamp = t2],
              out |-> <<DataEvent(le)>>]

\* handle_received_bytes: t is entry.timestamp (first Local::now()), t2 the
\* second Local::now() that stamps the new pending entry
handle_received_bytes(le, received_data, t, t2) ==
    LET ms == t - le.timestamp
    IN  IF ms < COALESCE_MS
        THEN [last_entry |-> [le EXCEPT !.data = @ \o received_data],
              out |-> <<>>]
        ELSE [last_entry |-> [le EXCEPT !.data = received_data,
                                        !.timestamp = t2],
              out |-> <<DataEvent(le)>>]

---------------------------------------------------------------------------
(* The analyzer: AnalyzerMode (src/src/analyzer_mode.rs) *)

\* A usize range lo..hi of a slice or string is in range if lo <= hi <= len;
\* indexing out of range panics
InRange(s, lo, hi) == 0 <= lo /\ lo <= hi /\ hi <= Len(s)

\* s[lo..hi], positions counted from 0 as in the source
Slice(s, lo, hi) == SubSeq(s, lo + 1, hi)

Reverse(s) == [i \in 1..Len(s) |-> s[Len(s) + 1 - i]]

\* usize::saturating_sub
saturating_sub(a, b) == IF a >= b THEN a - b ELSE 0

\* struct AnalyzerMode without its display_history, which is the variable
\* display_history
AnalyzerMode(active, scroll_offset, line, pos, endianness, mode) ==
    [active |-> active,
     scroll_offset |-> scroll_offset,
     analyzer_cursor_line |-> line,
     analyzer_cursor_pos |-> pos,
     analyzer_endianness |-> endianness,
     active_display_mode |-> mode]

\* AnalyzerMode::new()
AnalyzerModeNew == AnalyzerMode(FALSE, 0, 0, 0, "Little", "Hex")

\* uN::from_be_bytes / from_le_bytes.  An integer of the analyzer is held as
\* its base-256 digits, most significant first: u32 and u64 values are beyond
\* the integers TLC computes with
from_be_bytes_Swapped(b) == Reverse(b)
from_be_bytes(b) == b
from_le_bytes_Unswapped(b) == b
from_le_bytes(b) == Reverse(b)

\* the digits plus one, modulo 256^Len
RECURSIVE Incr(_)
Incr(w) ==
    IF w = <<>> THEN <<>>
    ELSE IF w[Len(w)] < 255
         THEN [w EXCEPT ![Len(w)] = @ + 1]
         ELSE Append(Incr(SubSeq(w, 1, Len(w) - 1)), 0)

\* iN::from_xx_bytes on the digits w of the unsigned word: the two's
\* complement value, as sign and magnitude
Signed(w) ==
    IF w[1] >= 128
    THEN [neg |-> TRUE, mag |-> Incr([i \in 1..Len(w) |-> 255 - w[i]])]
    ELSE [neg |-> FALSE, mag |-> w]

\* one line of the analyzer panel, format!("u16: {}", two_as_u16): the
\* label and the value shown (for f32 and f64 the bit pattern that
\* from_xx_bytes reinterprets)
Item(label, value) == [label |-> label, value |-> value]

\* `(self.analyzer_cursor_pos as i32) <= (analyzer_data.len() as i32 - k)`
Fits_OffByOne(c, n, k) == c <= n - k + 1
Fits(c, n, k) == c <= n - k

\* render_analyzer: the items pushed for the cursor position, and whether an
\* index or a slice was out of range
render_analyzer(a, analyzer_data) ==
    LET c == a.analyzer_cursor_pos
        n == Len(analyzer_data)
        big == a.analyzer_endianness = "Big"
        Bytes_(k) == Slice(analyzer_data, c, c + k)
        Ordered(k) == IF big THEN from_be_bytes(Bytes_(k))
                      ELSE from_le_bytes(Bytes_(k))
        one == <<Item("binary", Bytes_(1)), Item("u8", Bytes_(1))>>
        two == IF Fits(c, n, 2)
               THEN <<Item("u16", Ordered(2)), Item("i16", Signed(Ordered(2)))>>
               ELSE <<>>
        four == IF Fits(c, n, 4)
                THEN <<Item("u32", Ordered(4)), Item("i32", Signed(Ordered(4))),
                       Item("f32", Ordered(4))>>
                ELSE <<>>
        eight == IF Fits(c, n, 8)
                 THEN <<Item("u64", from_le_bytes(Bytes_(8))),
                        Item("i64", Signed(from_le_bytes(Bytes_(8)))),
                        Item("f64", from_le_bytes(Bytes_(8)))>>
                 ELSE <<>>
    IN  IF ~a.active \/ a.active_display_mode # "Hex" \/ c >= n
        THEN [panic |-> FALSE, items |-> <<>>]
        ELSE IF \/ ~InRange(analyzer_data, c, c + 1)
                \/ Fits(c, n, 2) /\ ~InRange(analyzer_data, c, c + 2)
                \/ Fits(c, n, 4) /\ ~InRange(analyzer_data, c, c + 4)
                \/ Fits(c, n, 8) /\ ~InRange(analyzer_data, c, c + 8)
             THEN [panic |-> TRUE, items |-> <<>>]
             ELSE [panic |-> FALSE, items |-> one \o two \o four \o eight]

HexDigit == <<"0", "1", "2", "3", "4", "5", "6", "7",
              "8", "9", "A", "B", "C", "D", "E", "F">>

\* format!("{:02X}", x)
FormatHex(x) == <<HexDigit[(x \div 16) + 1], HexDigit[(x % 16) + 1]>>

\* format!("{:02X} ", x)
FormatHexByte(x) == FormatHex(x) \o <<" ">>

\* x.to_string() of a u8
RECURSIVE to_string(_)
to_string(x) ==
    IF x < 10 THEN <<HexDigit[x + 1]>>
    ELSE to_string(x \div 10) \o <<HexDigit[(x % 10) + 1]>>

\* char::is_control: the C0 controls, DEL and the C1 controls
is_control(x) == x <= 31 \/ (127 <= x /\ x <= 159)

\* char::is_ascii
is_ascii(x) == x <= 127

\* the characters U+0020 to U+007E, the grave accent denoted by its code
\* point
PRINTABLE ==
    <<" ", "!", "\"", "#", "$", "%", "&", "'", "(", ")", "*", "+", ",", "-",
      ".", "/", "0", "1", "2", "3", "4", "5", "6", "7", "8", "9", ":", ";",
      "<", "=", ">", "?", "@", "A", "B", "C", "D", "E", "F", "G", "H", "I",
      "J", "K", "L", "M", "N", "O", "P", "Q", "R", "S", "T", "U", "V", "W",
      "X", "Y", "Z", "[", "\\", "]", "^", "_", "U+0060", "a", "b", "c", "d", "e",
      "f", "g", "h", "i", "j", "k", "l", "m", "n", "o", "p", "q", "r", "s",
      "t", "u", "v", "w", "x", "y", "z", "{", "|", "}", "~">>

\* format!("{}", x as char): the one character with code point x.  A
\* character outside U+0020..U+007E is denoted by its code point, "U+00C8"
\* for 200
as_char(x) ==
    IF 32 <= x /\ x <= 126 THEN PRINTABLE[x - 31]
    ELSE "U+00" \o HexDigit[(x \div 16) + 1] \o HexDigit[(x % 16) + 1]

\* the names in control_char_to_string, for 0x00 to 0x1F
CONTROL_NAMES ==
    <<<<"N", "U", "L">>, <<"S", "O", "H">>, <<"S", "T", "X">>,
      <<"E", "T", "X">>, <<"E", "O", "T">>, <<"E", "N", "Q">>,
      <<"A", "C", "K">>, <<"B", "E", "L">>, <<"B", "S">>, <<"H", "T">>,
      <<"L", "F">>, <<"V", "T">>, <<"F", "F">>, <<"C", "R">>, <<"S", "O">>,
      <<"S", "I">>, <<"D", "L", "E">>, <<"D", "C", "1">>, <<"D", "C", "2">>,
      <<"D", "C", "3">>, <<"D", "C", "4">>, <<"N", "A", "K">>,
      <<"S", "Y", "N">>, <<"E", "T", "B">>, <<"C", "A", "N">>, <<"E", "M">>,
      <<"S", "U", "B">>, <<"E", "S", "C">>, <<"F", "S">>, <<"G", "S">>,
      <<"R", "S">>, <<"U", "S">>>>

\* control_char_to_string: format!("<{}>", name), the name being " " for a
\* byte above 0x1F
control_char_to_string(c) ==
    <<"<">> \o (IF c <= 31 THEN CONTROL_NAMES[c + 1] ELSE <<" ">>) \o <<">">>

\* collect::<Vec<String>>().join(sep)
RECURSIVE join(_, _)
join(parts, sep) ==
    IF parts = <<>> THEN <<>>
    ELSE IF Len(parts) = 1 THEN Head(parts)
         ELSE Head(parts) \o sep \o join(Tail(parts), sep)

\* the elements of a list
Range(s) == {s[i] : i \in 1..Len(s)}

\* const DISPLAY_MODES
DISPLAY_MODES == <<"Decimal", "Hex", "Ascii", "MixedHex", "MixedDec">>

\* format_data_for_display, a string being the sequence of its characters
format_data_for_display(mode, data) ==
    LET Each(F(_)) == [i \in 1..Len(data) |-> F(data[i])]
        Ascii(x) == IF ~is_control(x) THEN <<as_char(x)>>
                    ELSE control_char_to_string(x)
        MixedHex(x) == IF is_ascii(x) /\ ~is_control(x) THEN <<as_char(x)>>
                       ELSE FormatHex(x)
        MixedDec(x) == IF is_ascii(x) /\ ~is_control(x) THEN <<as_char(x)>>
                       ELSE to_string(x)
    IN  CASE mode = "Hex"      -> join(Each(FormatHexByte), <<>>)
          [] mode = "Ascii"    -> join(Each(Ascii), <<>>)
          [] mode = "Decimal"  -> join(Each(to_string), <<" ">>)
          [] mode = "MixedHex" -> join(Each(MixedHex), <<" ">>)
          [] mode = "MixedDec" -> join(Each(MixedDec), <<" ">>)

HIGHLIGHT_MAX == 24

LineParts(pre, cur, hl, post) ==
    [panic |-> FALSE, pre_cursor |-> pre, cursor |-> cur,
     highlight_string |-> hl, post_cursor |-> post]
LinePanic ==
    [panic |-> TRUE, pre_cursor |-> <<>>, cursor |-> <<>>,
     highlight_string |-> <<>>, post_cursor |-> <<>>]

\* build_list_items, the arm of the closure for a DataEvent with payload
\* data: selected is `line_index == self.analyzer_cursor_line`.
\* `bytes.len() - 3` is a usize subtraction: below 3 it panics in a build
\* with overflow checks and wraps to a huge value in a build without, where
\* the test is then true and the slices are taken
data_event_line(a, data, selected, overflow_checks) ==
    LET bytes == format_data_for_display(a.active_display_mode, data)
        len == Len(bytes)
        pos == a.analyzer_cursor_pos * 3
        highlight_len == IF len - pos - 2 > HIGHLIGHT_MAX THEN HIGHLIGHT_MAX
                         ELSE len - pos - 2
        Split ==
            IF /\ InRange(bytes, 0, pos)
               /\ InRange(bytes, pos, pos + 2)
               /\ InRange(bytes, pos + 2, pos + 2 + highlight_len)
               /\ InRange(bytes, pos + 2 + highlight_len, len)
            THEN LineParts(Slice(bytes, 0, pos),
                           Slice(bytes, pos, pos + 2),
                           Slice(bytes, pos + 2, pos + 2 + highlight_len),
                           Slice(bytes, pos + 2 + highlight_len, len))
            ELSE LinePanic
    IN  IF ~(a.active_display_mode = "Hex" /\ selected /\ a.active)
        THEN LineParts(bytes, <<>>, <<>>, <<>>)
        ELSE IF len < 3
             THEN IF overflow_checks THEN LinePanic ELSE Split
             ELSE IF pos <= len - 3 THEN Split
                  ELSE LineParts(bytes, <<>>, <<>>, <<>>)

NoLine == LineParts(<<>>, <<>>, <<>>, <<>>)

\* a Line of the history list: of a DataEvent its direction and the parts
\* of its text, of another event its text
DataLine(rx_tx, parts) == [rx_tx |-> rx_tx, text |-> "", parts |-> parts]
TextLine(text) == [rx_tx |-> "-", text |-> text, parts |-> NoLine]

\* what build_list_items has produced: whether it panicked, the Lines, the
\* payload copied to analyzer_data, and of the row the cursor is on (if
\* there is one) the parts and the payload
Frame(panic, items, analyzer_data, split, line, cursor_data) ==
    [panic |-> panic, items |-> items, analyzer_data |-> analyzer_data,
     split |-> split, line |-> line, cursor_data |-> cursor_data]
NoFrame == Frame(FALSE, <<>>, <<>>, FALSE, NoLine, <<>>)

\* .skip(n) and .take(n) of an iterator
skip(s, n) == SubSeq(s, n + 1, Len(s))
take(s, n) == SubSeq(s, 1, IF n < Len(s) THEN n ELSE Len(s))

STARTED_TEXT == "--- Started ---"
STOPPED_TEXT == "--- Stopped ---"

\* the .map of build_list_items over the rows still to come, line_index
\* counting the DataEvents mapped so far; a panic of the closure ends it
RECURSIVE map_rows(_, _, _, _, _)
map_rows(a, rows, line_index, overflow_checks, acc) ==
    IF rows = <<>> THEN acc
    ELSE LET x == Head(rows)
             selected == line_index = a.analyzer_cursor_line
             split == a.active_display_mode = "Hex" /\ selected /\ a.active
             parts == data_event_line(a, x.entry.data, selected,
                                      overflow_checks)
         IN  CASE x.type = "DataEvent" /\ parts.panic ->
                    Frame(TRUE, <<>>, <<>>, TRUE, LinePanic, x.entry.data)
               [] x.type = "DataEvent" /\ ~parts.panic ->
                    map_rows(a, Tail(rows), line_index + 1, overflow_checks,
                        IF split
                        THEN Frame(FALSE,
                                   Append(acc.items, DataLine(x.entry.rx_tx, parts)),
                                   x.entry.data, TRUE, parts, x.entry.data)
                        ELSE [acc EXCEPT !.items =
                                 Append(@, DataLine(x.entry.rx_tx, parts))])
               [] x.type = "ErrorEvent" ->
                    map_rows(a, Tail(rows), line_index, overflow_checks,
                        [acc EXCEPT !.items = Append(@, TextLine(x.text))])
               [] x.type = "Started" ->
                    map_rows(a, Tail(rows), line_index, overflow_checks,
                        [acc EXCEPT !.items = Append(@, TextLine(STARTED_TEXT))])
               [] x.type = "Stopped" ->
                    map_rows(a, Tail(rows), line_index, overflow_checks,
                        [acc EXCEPT !.items = Append(@, TextLine(STOPPED_TEXT))])

\* build_list_items: the history, latest event first, without the first
\* scroll_offset rows and cut to max_num_rows rows
build_list_items(a, history, max_num_rows, overflow_checks) ==
    map_rows(a, take(skip(Reverse(history), a.scroll_offset), max_num_rows),
             0, overflow_checks, NoFrame)

\* the frame last drawn: the mode it was drawn from (pre), the Lines of the
\* history list, the payload build_list_items handed over, the row of the
\* cursor and the analyzer panel
NoPanel == [panic |-> FALSE, items |-> <<>>]
View(op, pre, frame, panel) ==
    [op |-> op, pre |-> pre, items |-> frame.items,
     analyzer_data |-> frame.analyzer_data, split |-> frame.split,
     line |-> frame.line, cursor_data |-> frame.cursor_data,
     panel |-> panel]
NoView == View("new", AnalyzerModeNew, NoFrame, NoPanel)

\* AnalyzerMode::render: build_list_items, which copies the payload of the
\* cursor line to analyzer_data, then render_analyzer
render(a, history, num_rows, overflow_checks) ==
    LET frame == build_list_items(a, history, num_rows, overflow_checks)
        panel == IF frame.panic THEN NoPanel
                 ELSE render_analyzer(a, frame.analyzer_data)
    IN  View("render", a, frame, panel)

---------------------------------------------------------------------------

(* The settings: SettingsMode (src/src/settings_mode.rs, serialtypes.rs) *)

STOP_BITS == <<1, 2, 3>>
PARITY == <<"None", "Odd", "Even">>
DATABITS == <<5, 6, 7, 8, 9>>

\* list.iter().position(|&x| x == v).unwrap_or(0), counted from 0
Position(list, v) ==
    IF \E i \in 1..Len(list) : list[i] = v
    THEN (CHOOSE i \in 1..Len(list) :
             list[i] = v /\ \A j \in 1..(i - 1) : list[j] # v) - 1
    ELSE 0

\* the rotate_* functions: the entry after the selected one, cyclically
RotateIn(list, v) == list[((Position(list, v) + 1) % Len(list)) + 1]

\* struct SettingsMode (port, stopbits, parity, databits)
SettingsMode(port, stopbits, parity, databits) ==
    [port |-> port, stopbits |-> stopbits, parity |-> parity, databits |-> databits]

\* the struct literal of SettingsMode::new(), with the given port
SettingsModeNew(port) == SettingsMode(port, STOP_BITS[1], PARITY[1], DATABITS[4])

\* the file .klemme: there is none, or one that does not deserialize to a
\* SettingsMode, or one that holds the fields of a SettingsMode
NoFile == [kind |-> "none", settings |-> SettingsModeNew("")]
Garbage == [kind |-> "garbage", settings |-> SettingsModeNew("")]
Stored(s) == [kind |-> "settings", settings |-> s]

\* try_load_config_file: whether it returns Ok
try_load_config_file(file) == file.kind = "settings"

\* the answers of serial2::SerialPort::available_ports(): an error, or the
\* list of the file names of the ports
PortsErr == <<"Err">>

\* rotate_port: the port after the selected one in the list, the first one
\* if the selected one is not in the list, "" if the list is empty
rotate_port(s, ports) ==
    IF ports = PortsErr THEN s
    ELSE IF Len(ports) = 0 THEN [s EXCEPT !.port = ""]
    ELSE IF \E i \in 1..Len(ports) : ports[i] = s.port
         THEN [s EXCEPT !.port = ports[((Position(ports, s.port) + 1)
                                           % Len(ports)) + 1]]
         ELSE [s EXCEPT !.port = ports[1]]

\* SettingsMode::new(): the settings of the config file if it loads, else
\* the defaults with the port rotate_port selects
new(file, ports) ==
    IF try_load_config_file(file) THEN file.settings
    ELSE rotate_port(SettingsModeNew(""), ports)

\* what File::create and serde_json::to_writer_pretty do in
\* try_write_config_file: the file is written, or it is created (emptied)
\* and the write fails, or it cannot be created and the unwrap panics
FileOutcomes == {"written", "truncated", "denied"}

\* try_write_config_file: the file it leaves
try_write_config_file(s, file, fo) ==
    CASE fo = "written"   -> Stored(s)
      [] fo = "truncated" -> Garbage
      [] fo = "denied"    -> file

\* `match self.parity.as_str()` in create_serial_context
MatchParity(parity) ==
    CASE parity = "N" -> "Parity::None"
      [] parity = "E" -> "Parity::Even"
      [] parity = "O" -> "Parity::Odd"
      [] OTHER -> "Parity::None"

\* `match self.stopbits` in create_serial_context
MatchStopBits(stopbits) ==
    CASE stopbits = 1 -> "StopBits::One"
      [] stopbits = 2 -> "StopBits::Two"
      [] OTHER -> "StopBits::One"

\* `match self.databits` in create_serial_context
MatchCharSize(databits) ==
    CASE databits = 5 -> "CharSize::Bits5"
      [] databits = 6 -> "CharSize::Bits6"
      [] databits = 7 -> "CharSize::Bits7"
      [] databits = 8 -> "CharSize::Bits8"
      [] OTHER -> "CharSize::Bits8"

READ_TIMEOUT_MS == 125
WRITE_TIMEOUT_MS == 2500

\* what the port operations of one create_serial_context call return (TRUE
\* is Ok): open, set_read_timeout, set_write_timeout, flush, discard_buffers
PortOutcomes ==
    [open : BOOLEAN, set_read_timeout : BOOLEAN, set_write_timeout : BOOLEAN,
     flush : BOOLEAN, discard_buffers : BOOLEAN]

\* the serial2::Settings the closure passed to SerialPort::open sets up
PortSettings(s) ==
    [parity |-> MatchParity(s.parity),
     stop_bits |-> MatchStopBits(s.stopbits),
     char_size |-> MatchCharSize(s.databits)]

\* the Result: "Ok" stands for Ok(SerialContext::new(port_name, p)); cfg is
\* the configuration asked for, calls the port operations made, in order,
\* the timeouts those passed to set_read_timeout and set_write_timeout
PortResult(result, port_name, cfg, calls) ==
    [result |-> result, port_name |-> port_name, cfg |-> cfg,
     calls |-> calls,
     read_timeout |-> IF Len(calls) >= 2 THEN READ_TIMEOUT_MS ELSE 0,
     write_timeout |-> IF Len(calls) >= 3 THEN WRITE_TIMEOUT_MS ELSE 0]

\* the outcome of an operation of SettingsMode: the settings it started
\* from, whether it panicked and, of create_serial_context, the outcomes of
\* the port operations and the Result
NoOutcomes == [open |-> FALSE, set_read_timeout |-> FALSE,
               set_write_timeout |-> FALSE, flush |-> FALSE,
               discard_buffers |-> FALSE]
NoResult == PortResult("-", "", PortSettings(SettingsModeNew("")), <<>>)
SettingsOut(op, pre, panic, oc, res) ==
    [op |-> op, pre |-> pre, panic |-> panic, oc |-> oc, res |-> res]
NoPortResult ==
    SettingsOut("new", SettingsModeNew(""), FALSE, NoOutcomes, NoResult)

\* create_serial_context, oc being the outcomes of the port operations
create_serial_context_FlushBadSettings(s, oc) ==
    LET cfg == PortSettings(s)
    IN  IF ~oc.open
        THEN PortResult("FailedToOpen", "", cfg, <<"open">>)
        ELSE IF ~oc.set_read_timeout
        THEN PortResult("BadSettings", "", cfg, <<"open", "set_read_timeout">>)
        ELSE IF ~oc.set_write_timeout
        THEN PortResult("BadSettings", "", cfg,
                        <<"open", "set_read_timeout", "set_write_timeout">>)
        ELSE IF ~oc.flush
        THEN PortResult("BadSettings", "", cfg,
                        <<"open", "set_read_timeout", "set_write_timeout", "flush">>)
        ELSE IF ~oc.discard_buffers
        THEN PortResult("BadSettings", "", cfg,
                        <<"open", "set_read_timeout", "set_write_timeout", "flush",
                          "discard_buffers">>)
        ELSE PortResult("Ok", s.port, cfg,
                        <<"open", "set_read_timeout", "set_write_timeout", "flush",
                          "discard_buffers">>)

create_serial_context(s, oc) ==
    LET cfg == PortSettings(s)
    IN  IF ~oc.open
        THEN PortResult("FailedToOpen", "", cfg, <<"open">>)
        ELSE IF ~oc.set_read_timeout
        THEN PortResult("BadSettings", "", cfg, <<"open", "set_read_timeout">>)
        ELSE IF ~oc.set_write_timeout
        THEN PortResult("BadSettings", "", cfg,
                        <<"open", "set_read_timeout", "set_write_timeout">>)
        ELSE IF ~oc.flush
        THEN PortResult("FailedToFlush", "", cfg,
                        <<"open", "set_read_timeout", "set_write_timeout", "flush">>)
        ELSE IF ~oc.discard_buffers
        THEN PortResult("BadSettings", "", cfg,
                        <<"open", "set_read_timeout", "set_write_timeout", "flush",
                          "discard_buffers">>)
        ELSE PortResult("Ok", s.port, cfg,
                        <<"open", "set_read_timeout", "set_write_timeout", "flush",
                          "discard_buffers">>)

---------------------------------------------------------------------------
(* The input line: InteractiveMode (src/src/interactive_mode.rs) *)

\* struct InteractiveMode (send_buffer, input_mode, crlf); in the send
\* buffer a typed character is the character, a converted byte is its number
InteractiveMode(send_buffer, input_mode, crlf) ==
    [send_buffer |-> send_buffer, input_mode |-> input_mode, crlf |-> crlf]

\* InteractiveMode::new
InteractiveModeNew == InteractiveMode(<<>>, "Default", "None")

INPUT_MODES == <<"Default", "Hex">>

NoDigit == 16

LowerHexDigit == <<"a", "b", "c", "d", "e", "f">>

\* (c as char).to_digit(16): Some(value), or None (NoDigit)
to_digit(c) ==
    IF \E i \in 1..16 : HexDigit[i] = c
    THEN (CHOOSE i \in 1..16 : HexDigit[i] = c) - 1
    ELSE IF \E i \in 1..6 : LowerHexDigit[i] = c
    THEN (CHOOSE i \in 1..6 : LowerHexDigit[i] = c) + 9
    ELSE NoDigit

\* two_hex_bytes_to_char(b0, b1) as u8: (b0 << 4) + b1 in u8 arithmetic
two_hex_bytes_to_char(b0, b1) == (((b0 * 16) % 256) + b1) % 256

InputResult(panic, send_buffer) == [panic |-> panic, send_buffer |-> send_buffer]

\* the while loop of apply_input_mode from index idx on; the loop test is
\* `idx < limit`, and always true if the limit has wrapped
RECURSIVE HexLoop(_, _, _, _, _)
HexLoop(buf, idx, new_buffer, limit, wrapped) ==
    IF ~(wrapped \/ idx < limit)
    THEN InputResult(FALSE, new_buffer)
    ELSE IF idx >= Len(buf)
    THEN InputResult(TRUE, buf)          \* send_buffer[idx] out of range
    ELSE IF buf[idx + 1] = " "
    THEN HexLoop(buf, idx + 1, new_buffer, limit, wrapped)
    ELSE IF to_digit(buf[idx + 1]) = NoDigit
    THEN InputResult(TRUE, buf)          \* to_digit(16).unwrap()
    ELSE IF idx + 1 >= Len(buf)
    THEN InputResult(TRUE, buf)          \* send_buffer[idx + 1] out of range
    ELSE IF to_digit(buf[idx + 2]) = NoDigit
    THEN InputResult(TRUE, buf)          \* to_digit(16).unwrap()
    ELSE HexLoop(buf, idx + 2,
                 Append(new_buffer,
                        two_hex_bytes_to_char(to_digit(buf[idx + 1]),
                                              to_digit(buf[idx + 2]))),
                 limit, wrapped)

\* apply_input_mode.  `self.send_buffer.len() - 1` is a usize subtraction:
\* for the empty buffer it panics in a build with overflow checks and wraps
\* to usize::MAX in a build without
apply_input_mode(m, overflow_checks) ==
    IF m.input_mode = "Hex"
    THEN IF Len(m.send_buffer) = 0
         THEN IF overflow_checks THEN InputResult(TRUE, m.send_buffer)
              ELSE HexLoop(m.send_buffer, 0, <<>>, 0, TRUE)
         ELSE HexLoop(m.send_buffer, 0, <<>>, Len(m.send_buffer) - 1, FALSE)
    ELSE InputResult(FALSE, m.send_buffer)

CRLF_SETTINGS == <<"None", "CR", "LF", "CRLF">>

\* apply_crlf_setting on the send buffer buf: b'\r' is 13, b'\n' is 10
apply_crlf_setting(buf, crlf) ==
    CASE crlf = "CRLF" -> buf \o <<13, 10>>
      [] crlf = "LF"   -> Append(buf, 10)
      [] crlf = "CR"   -> Append(buf, 13)
      [] OTHER         -> buf

\* the outcome of an operation of the input line: the mode before it,
\* whether it panicked, the send buffer after apply_input_mode, the
\* commands it put on the command channel, and the send buffer it left
NoInputOut == [op |-> "new", pre |-> InteractiveModeNew,
               panic |-> FALSE, send_buffer |-> <<>>, sent |-> <<>>,
               left |-> <<>>]

---------------------------------------------------------------------------
(* Initial value of the modes when only the coordinator is looked at *)

\* struct App of main.rs: its mode; as history the commands it has sent and
\* the number of keys without a command it has handled; and where its main
\* thread is: in the loop of run() ("loop"), inside enter_interactive_mode
\* with the mode set and the port being opened ("opening"), inside an
\* enter_*_mode with the Stop sent and the mode `to` not yet assigned
\* ("sent"), or in the sleep of run() with the exit flag set ("exit")
App(mode, cmds, keys) ==
    [mode |-> mode, cmds |-> cmds, keys |-> keys, at |-> "loop", to |-> mode]

\* App::default: the program starts in Settings mode
AppDefault == App("Settings", <<>>, 0)

InitUi ==
    /\ app = AppDefault
    /\ analyzer = AnalyzerModeNew
    /\ analyzer_view = NoView
    /\ settings = SettingsModeNew("")
    /\ settings_out = NoPortResult
    /\ config_file = NoFile
    /\ interactive = InteractiveModeNew
    /\ interactive_out = NoInputOut

---------------------------------------------------------------------------

(* Initial state: the thread has just been spawned *)

InitCoord ==
    /\ state = Stopped
    /\ last_entry = HistoryEntryDefault(0)
    /\ data_to_send = <<>>
    /\ pc = "cmd"
    /\ cmd_chan = <<>>
    /\ events = <<>>
    /\ display_history = <<>>
    /\ now = 0
    /\ dropped = {}
    /\ next_ctx = 0
    /\ n_cmds = 0
    /\ n_reads = 0
    /\ produced = <<>>
    /\ iter_cmd = NoCmd
    /\ iter_pre = [state |-> Stopped, last_entry |-> HistoryEntryDefault(0),
                   sent_at |-> NoSentAt, pending_reads |-> <<>>]
    /\ iter_log = <<>>
    /\ wire = <<>>
    /\ stopped_sends = {}
    /\ front_alive = TRUE
    /\ sent_at = <<>>
    /\ pending_reads = <<>>

\* the thread has been spawned; the modes are as constructed
Init == InitCoord /\ InitUi

---------------------------------------------------------------------------
(* Front end *)

\* send_command(cmd): command_sender.send(cmd)
FrontSend(cmd) ==
    /\ UNCHANGED ui_vars
    /\ front_alive
    /\ n_cmds < MaxCmds
    /\ cmd_chan' = Append(cmd_chan, cmd)
    /\ sent_at' = Append(sent_at, IF cmd.type = "Stop"
                                   THEN SentAt(state.tag, Len(cmd_chan))
                                   ELSE NoSentAt)
    /\ UNCHANGED <<front_alive, pending_reads>>
    /\ n_cmds' = n_cmds + 1
    /\ next_ctx' = IF cmd.type = "Start" THEN cmd.ctx ELSE next_ctx
    /\ UNCHANGED <<state, last_entry, data_to_send, pc, events,
                   display_history, now, dropped, n_reads, produced,
                   iter_cmd, iter_pre, iter_log, wire, stopped_sends>>

SendStop == FrontSend(CmdStop)
SendStart == FrontSend(CmdStart(next_ctx + 1))
SendData == \E d \in TxPayloads(n_cmds + 1) : FrontSend(CmdSend(d))

\* update_history_with_incoming_data with `x` overwritten instead of pushed
\* inside the loop: only the last event received is kept
update_history_keep_last ==
    /\ UNCHANGED ui_vars
    /\ front_alive
    /\ events # <<>>
    /\ UNCHANGED <<front_alive, sent_at, pending_reads>>
    /\ display_history' = Append(display_history, events[Len(events)])
    /\ events' = <<>>
    /\ UNCHANGED <<state, last_entry, data_to_send, pc, cmd_chan, now,
                   dropped, next_ctx, n_cmds, n_reads, produced,
                   iter_cmd, iter_pre, iter_log, wire, stopped_sends>>

\* update_history_with_incoming_data: try_recv until the channel is empty
update_history_with_incoming_data ==
    /\ UNCHANGED ui_vars
    /\ front_alive
    /\ events # <<>>
    /\ UNCHANGED <<front_alive, sent_at, pending_reads>>
    /\ display_history' = display_history \o events
    /\ events' = <<>>
    /\ UNCHANGED <<state, last_entry, data_to_send, pc, cmd_chan, now,
                   dropped, next_ctx, n_cmds, n_reads, produced,
                   iter_cmd, iter_pre, iter_log, wire, stopped_sends>>

---------------------------------------------------------------------------
(* The clock *)

Tick ==
    /\ UNCHANGED ui_vars
    /\ now < MaxTime
    /\ UNCHANGED <<front_alive, sent_at, pending_reads>>
    /\ now' = now + 1
    /\ UNCHANGED <<state, last_entry, data_to_send, pc, cmd_chan, events,
                   display_history, dropped, next_ctx, n_cmds, n_reads,
                   produced, iter_cmd, iter_pre, iter_log, wire, stopped_sends>>

---------------------------------------------------------------------------
(* Coordinator: port_background_thread *)

\* loop top: data_to_send = vec![], receive_command, match cmd, match state
CoordCommand ==
    /\ UNCHANGED ui_vars
    /\ pc = "cmd"
    /\ ~RecvBlocks(state, cmd_chan, front_alive)
    /\ LET cmd == receive_command(state, cmd_chan)
           \* `let _ = tx.send(..)`: without a receiver the event is lost
           out == IF front_alive THEN MatchEmit(state, cmd) ELSE <<>>
       IN  /\ cmd_chan' = IF cmd_chan # <<>> THEN Tail(cmd_chan) ELSE cmd_chan
           /\ sent_at' = IF cmd_chan # <<>> THEN Tail(sent_at) ELSE sent_at
           /\ state' = MatchState(state, cmd)
           /\ data_to_send' = MatchData(FreshData(data_to_send), cmd)
           /\ dropped' = dropped \cup MatchDropped(state, cmd)
           /\ events' = events \o out
           /\ produced' = produced \o out
           /\ iter_cmd' = cmd
           /\ iter_pre' = [state |-> state, last_entry |-> last_entry,
                           sent_at |-> IF cmd_chan # <<>> THEN Head(sent_at)
                                       ELSE NoSentAt,
                           pending_reads |-> pending_reads]
           /\ iter_log' = LogEmits(out, now)
           /\ pc' = NextPc(state', data_to_send')
           /\ stopped_sends' =
                 IF cmd.type = "Send" /\ StateEq(state, Stopped)
                 THEN stopped_sends \cup Bytes(cmd.data) ELSE stopped_sends
    /\ UNCHANGED <<last_entry, display_history, now, next_ctx, n_cmds, n_reads,
                   wire, front_alive, pending_reads>>

\* send_receive: p.write(&data_to_send)
\* `tx.send(..).unwrap()`: without a receiver the send fails and the thread
\* panics; the write has been made
CoordWrite(ok) ==
    /\ UNCHANGED ui_vars
    /\ pc = "write"
    /\ LET out == IF front_alive THEN WriteEmit(data_to_send, ok, now) ELSE <<>>
       IN  /\ events' = events \o out
           /\ produced' = produced \o out
           /\ iter_log' = iter_log \o <<LogWrite(data_to_send, ok, now)>>
                                    \o LogEmits(out, now)
    /\ wire' = Append(wire, data_to_send)
    /\ pc' = IF front_alive THEN "read" ELSE "panicked"
    /\ dropped' = IF front_alive THEN dropped ELSE dropped \cup {state.ctx}
    /\ UNCHANGED <<state, last_entry, data_to_send, cmd_chan, display_history,
                   now, next_ctx, n_cmds, n_reads, iter_cmd, iter_pre,
                   stopped_sends, front_alive, sent_at, pending_reads>>

\* send_receive: p.read(&mut buffer) returns Err (timeout)
CoordReadErr ==
    /\ UNCHANGED ui_vars
    /\ pc = "read"
    /\ UNCHANGED <<front_alive, sent_at, pending_reads>>
    /\ iter_log' = Append(iter_log, LogRead(<<>>, FALSE, now))
    /\ pc' = "cmd"
    /\ UNCHANGED <<state, last_entry, data_to_send, cmd_chan, events,
                   display_history, now, dropped, next_ctx, n_cmds, n_reads,
                   produced, iter_cmd, iter_pre, wire, stopped_sends>>

\* send_receive: p.read(&mut buffer) returns Ok(n); handle_received_bytes
\* `tx.send(..).unwrap()` in handle_received_bytes: without a receiver the
\* thread panics before last_entry is assigned
CoordReadOk(chunk, drift, max_reads) ==
    /\ UNCHANGED ui_vars
    /\ pc = "read"
    /\ n_reads < max_reads
    /\ LET r == handle_received_bytes(last_entry, chunk, now, now + drift)
           panic == r.out # <<>> /\ ~front_alive
       IN  /\ (r.out = <<>> \/ panic) => drift = 0
           /\ IF panic
              THEN /\ iter_log' = Append(iter_log, LogRead(chunk, TRUE, now))
                   /\ pc' = "panicked"
                   /\ dropped' = dropped \cup {state.ctx}
                   /\ UNCHANGED <<last_entry, events, produced, now, pending_reads>>
              ELSE /\ last_entry' = r.last_entry
                   /\ events' = events \o r.out
                   /\ produced' = produced \o r.out
                   /\ iter_log' = iter_log \o <<LogRead(chunk, TRUE, now)>>
                                            \o LogEmits(r.out, now)
                   \* the second Local::now() is read only on the flush path
                   /\ now' = IF r.out # <<>> THEN now + drift ELSE now
                   /\ pending_reads' =
                         IF r.out # <<>>
                         THEN <<ReadAt(now, chunk, produced)>>
                         ELSE Append(pending_reads, ReadAt(now, chunk, produced))
                   /\ pc' = "cmd"
                   /\ UNCHANGED dropped
    /\ n_reads' = n_reads + 1
    /\ UNCHANGED <<state, data_to_send, cmd_chan, display_history,
                   next_ctx, n_cmds, iter_cmd, iter_pre, wire, stopped_sends,
                   front_alive, sent_at>>

CoordRead == \E chunk \in RxChunks(n_reads + 1), drift \in Drifts :
    CoordReadOk(chunk, drift, MaxReads)

CoordWriteAny == \E ok \in BOOLEAN : CoordWrite(ok)

\* The coordinator, the commands of the front end and the clock
Next ==
    \/ SendStop
    \/ SendStart
    \/ SendData
    \/ Tick
    \/ CoordCommand
    \/ CoordWriteAny
    \/ CoordReadErr
    \/ CoordRead

Spec == Init /\ [][Next]_vars

\* port_background_thread(rx, tx): the owner of the other ends of its two
\* channels is dropped, the command sender and the event receiver with it;
\* the thread runs on until the process exits
FrontExit ==
    /\ UNCHANGED ui_vars
    /\ front_alive
    /\ front_alive' = FALSE
    /\ events' = <<>>
    /\ UNCHANGED <<state, last_entry, data_to_send, pc, cmd_chan,
                   display_history, now, dropped, next_ctx, n_cmds, n_reads,
                   produced, iter_cmd, iter_pre, iter_log, wire, stopped_sends,
                   sent_at, pending_reads>>

\* The coordinator and a front end that exits at some point
NextExit ==
    \/ Next
    \/ FrontExit

SpecExit == Init /\ [][NextExit]_vars

\* The same with the front end draining the event channel
NextFront ==
    \/ Next
    \/ update_history_with_incoming_data

SpecFront == Init /\ [][NextFront]_vars

TypeOK ==
    /\ state.tag \in {"Stopped", "Running"}
    /\ pc \in {"cmd", "write", "read", "panicked"}
    /\ now \in 0..(MaxTime + MaxReads)
    /\ last_entry.rx_tx = "Rx"

---------------------------------------------------------------------------
(* Vocabulary of the properties *)

\* the events the current iteration has sent, in order
IterEmits ==
    LET es == SelectSeq(iter_log, LAMBDA x : x.k = "emit")
    IN  [i \in 1..Len(es) |-> es[i].ev]

\* how many events of the given type the current iteration has sent
IterCount(type) == Len(SelectSeq(IterEmits, LAMBDA e : e.type = type))

\* the port operations ("write", "read") of the current iteration
IterOps == SelectSeq(iter_log, LAMBDA x : x.k \in {"write", "read"})

IsSuffix(suf, s) ==
    /\ Len(suf) <= Len(s)
    /\ SubSeq(s, Len(s) - Len(suf) + 1, Len(s)) = suf

\* what the iteration sent is what arrived last on the event channel
IterEmitsSent == IsSuffix(IterEmits, produced) /\ IsSuffix(IterEmits, events)

IsDataEvent(e, dir) == e.type = "DataEvent" /\ e.entry.rx_tx = dir

---------------------------------------------------------------------------
(* C1: consuming Start(ctx) while the state is Stopped sets the state to
   Running(ctx) and puts exactly one Started event on the event channel. *)
C1_StartWhenStopped ==
    (iter_cmd.type = "Start" /\ StateEq(iter_pre.state, Stopped)) =>
        /\ state = Running(iter_cmd.ctx)
        /\ IterCount("Started") = 1
        /\ Head(iter_log) = LogEmit(EvStarted, Head(iter_log).t)
        /\ IterEmitsSent

\* a Start has been consumed while Stopped
C1_Witness ==
    /\ iter_cmd.type = "Start"
    /\ StateEq(iter_pre.state, Stopped)
    /\ state.tag = "Running"
    /\ state.ctx # NoCtx

(* C2: consuming Stop while the state is Running(c) sets the state to
   Stopped, puts exactly one Stopped event on the event channel, drops the
   context c, and neither writes to nor reads from the port in that
   iteration. *)
C2_StopWhenRunning ==
    (iter_cmd.type = "Stop" /\ ~StateEq(iter_pre.state, Stopped)) =>
        /\ state = Stopped
        /\ IterEmits = <<EvStopped>>
        /\ IterEmitsSent
        /\ iter_pre.state.ctx \in dropped
        /\ IterOps = <<>>
        /\ pc = "cmd"

\* a Stop has been consumed while Running
C2_Witness ==
    /\ iter_cmd.type = "Stop"
    /\ iter_pre.state.tag = "Running"
    /\ iter_pre.state.ctx # NoCtx

(* C3: consuming Start(ctx2) while the state is Running(ctx1) leaves the
   state Running(ctx1), sends neither Started nor Stopped, and drops ctx2. *)
C3_StartWhenRunning ==
    (iter_cmd.type = "Start" /\ ~StateEq(iter_pre.state, Stopped)) =>
        /\ state = iter_pre.state
        /\ state.ctx # iter_cmd.ctx
        /\ IterCount("Started") = 0
        /\ IterCount("Stopped") = 0
        /\ IterCount("ErrorEvent") = 0
        /\ iter_cmd.ctx \in dropped
        /\ state.ctx \notin dropped

\* a Start with a second context has been consumed while Running
C3_Witness ==
    /\ iter_cmd.type = "Start"
    /\ iter_pre.state.tag = "Running"
    /\ iter_cmd.ctx # iter_pre.state.ctx

(* C4: consuming Stop while the state is Stopped leaves the state Stopped and
   sends no event. *)
C4_StopWhenStopped ==
    (iter_cmd.type = "Stop" /\ StateEq(iter_pre.state, Stopped)) =>
        /\ state = Stopped
        /\ iter_log = <<>>
        /\ pc = "cmd"

\* a Stop has been consumed while Stopped
C4_Witness ==
    /\ iter_cmd.type = "Stop"
    /\ iter_pre.state.tag = "Stopped"

(* C5: the bytes of a Send consumed while Stopped are discarded: they are
   never handed to a port write and never appear in a DataEvent or in the
   pending entry, also not after a later Start. *)
C5_StoppedSendDiscarded ==
    \A b \in stopped_sends :
        /\ \A i \in 1..Len(wire) : b \notin Bytes(wire[i])
        /\ \A i \in 1..Len(produced) :
              produced[i].type = "DataEvent" => b \notin Bytes(produced[i].entry.data)
        /\ b \notin Bytes(last_entry.data)
        /\ pc = "write" => b \notin Bytes(data_to_send)

\* a non-empty Send was consumed while Stopped, and after a later Start
\* another Send has been written to the port
C5_Witness ==
    /\ stopped_sends # {}
    /\ state.tag = "Running"
    /\ wire # <<>>

(* C6: a non-empty Send consumed while Running is handed to exactly one port
   write; when the write succeeds, exactly one Tx DataEvent carrying the sent
   bytes is sent right after it, before the iteration's read.  An empty Send
   causes no write and no Tx DataEvent or ErrorEvent: the iteration goes
   straight to the read. *)
C6_SendWhenRunning ==
    (iter_cmd.type = "Send" /\ ~StateEq(iter_pre.state, Stopped)) =>
        IF iter_cmd.data # <<>>
        THEN \/ pc = "write" /\ iter_log = <<>>
             \/ /\ pc # "write"
                /\ iter_log[1] = LogWrite(iter_cmd.data, iter_log[1].ok, iter_log[1].t)
                /\ Len(SelectSeq(IterOps, LAMBDA x : x.k = "write")) = 1
                /\ iter_log[1].ok =>
                     /\ iter_log[2] =
                          LogEmit(DataEvent(HistoryEntry(iter_log[1].t, "Tx",
                                                         iter_cmd.data)),
                                  iter_log[1].t)
                     /\ Len(SelectSeq(IterEmits,
                                      LAMBDA e : IsDataEvent(e, "Tx"))) = 1
                     /\ \A i \in 1..Len(iter_log) : iter_log[i].k = "read" => i > 2
                     /\ IsSuffix(IterEmits, produced)
        ELSE /\ pc # "write"
             /\ \A i \in 1..Len(iter_log) : iter_log[i].k # "write"
             /\ Len(SelectSeq(IterEmits, LAMBDA e : IsDataEvent(e, "Tx"))) = 0
             /\ IterCount("ErrorEvent") = 0
             /\ iter_log # <<>> => iter_log[1].k = "read"

\* a non-empty Send was consumed while Running, its write succeeded and the
\* iteration has finished with its read
C6_Witness ==
    /\ iter_cmd.type = "Send"
    /\ iter_cmd.data # <<>>
    /\ pc = "cmd"
    /\ Len(iter_log) >= 3
    /\ iter_log[1].k = "write"
    /\ iter_log[1].ok

\* the current iteration's port write has failed
WriteFailed == \E i \in 1..Len(iter_log) : iter_log[i].k = "write" /\ ~iter_log[i].ok

(* C7 as claimed: an iteration whose port write fails sends exactly one
   ErrorEvent and no DataEvent at all, and the state remains Running. *)
C7_Original ==
    WriteFailed =>
        /\ IterCount("ErrorEvent") = 1
        /\ IterCount("DataEvent") = 0
        /\ state.tag = "Running"

(* C7 amended: an iteration whose port write fails sends exactly one
   ErrorEvent, with the fixed text and right after the write, and no Tx
   DataEvent; the state remains Running with the same context; the only
   DataEvent the iteration can send is the Rx flush of the pending entry by
   the read that follows. *)
C7_WriteFailure ==
    WriteFailed =>
        /\ IterCount("ErrorEvent") = 1
        /\ iter_log[1].k = "write"
        /\ iter_log[2] = LogEmit(ErrorEvent(WRITE_ERROR_TEXT), iter_log[1].t)
        /\ Len(SelectSeq(IterEmits, LAMBDA e : IsDataEvent(e, "Tx"))) = 0
        /\ state = iter_pre.state
        /\ state.tag = "Running"
        /\ IterCount("DataEvent") <= 1
        /\ \A i \in 1..Len(iter_log) :
              (iter_log[i].k = "emit" /\ iter_log[i].ev.type = "DataEvent") =>
                  /\ i = 4
                  /\ iter_log[3].k = "read"
                  /\ iter_log[i].ev = DataEvent(iter_pre.last_entry)

\* the write failed and the read of the same iteration flushed the pending entry
C7_Witness ==
    /\ WriteFailed
    /\ IterCount("DataEvent") = 1

(* C8: handle_received_bytes with a chunk read at time t, where
   t - pending.timestamp < 5 ms: the chunk is appended to the end of the
   pending data, the pending timestamp is unchanged and no event is sent. *)
C8_Coalesce ==
    \A i \in 1..Len(iter_log) :
        ( /\ iter_log[i].k = "read"
          /\ iter_log[i].ok
          /\ iter_log[i].t - iter_pre.last_entry.timestamp < COALESCE_MS ) =>
            /\ last_entry.data = iter_pre.last_entry.data \o iter_log[i].data
            /\ last_entry.timestamp = iter_pre.last_entry.timestamp
            /\ last_entry.rx_tx = "Rx"
            /\ i = Len(iter_log)

\* a non-empty chunk has been read 4 ms after the timestamp of a non-empty
\* pending entry
C8_Witness ==
    /\ iter_log # <<>>
    /\ iter_log[Len(iter_log)].k = "read"
    /\ iter_log[Len(iter_log)].ok
    /\ iter_log[Len(iter_log)].data # <<>>
    /\ iter_pre.last_entry.data # <<>>
    /\ iter_log[Len(iter_log)].t - iter_pre.last_entry.timestamp = COALESCE_MS - 1

(* C9 as claimed: handle_received_bytes with a chunk read at time t, where
   t - pending.timestamp >= 5 ms, sends exactly one DataEvent carrying the
   previous pending entry, and afterwards the pending entry is the new chunk
   with timestamp t. *)
C9_Original ==
    \A i \in 1..Len(iter_log) :
        ( /\ iter_log[i].k = "read"
          /\ iter_log[i].ok
          /\ iter_log[i].t - iter_pre.last_entry.timestamp >= COALESCE_MS ) =>
            /\ Len(iter_log) = i + 1
            /\ iter_log[i + 1].ev = DataEvent(iter_pre.last_entry)
            /\ last_entry = HistoryEntry(iter_log[i].t, "Rx", iter_log[i].data)

(* C9 amended: ... afterwards the pending entry holds exactly the new chunk,
   and its timestamp is a second reading of the clock taken after the event
   was sent: not earlier than t, and not necessarily t. *)
C9_Flush ==
    \A i \in 1..Len(iter_log) :
        ( /\ iter_log[i].k = "read"
          /\ iter_log[i].ok
          /\ iter_log[i].t - iter_pre.last_entry.timestamp >= COALESCE_MS ) =>
            /\ Len(iter_log) = i + 1
            /\ iter_log[i + 1].k = "emit"
            /\ iter_log[i + 1].ev = DataEvent(iter_pre.last_entry)
            /\ IsSuffix(<<DataEvent(iter_pre.last_entry)>>, produced)
            /\ last_entry.data = iter_log[i].data
            /\ last_entry.rx_tx = "Rx"
            /\ last_entry.timestamp >= iter_log[i].t
            /\ last_entry.timestamp <= now

\* a non-empty chunk has been read exactly 5 ms after the timestamp of a
\* non-empty pending entry, which was flushed
C9_Witness ==
    /\ Len(iter_log) >= 2
    /\ iter_log[Len(iter_log) - 1].k = "read"
    /\ iter_log[Len(iter_log) - 1].ok
    /\ iter_log[Len(iter_log) - 1].data # <<>>
    /\ iter_pre.last_entry.data # <<>>
    /\ iter_log[Len(iter_log) - 1].t - iter_pre.last_entry.timestamp = COALESCE_MS
    /\ iter_log[Len(iter_log)].k = "emit"

(* C10: no DataEvent with an empty payload is ever put on the event channel
   (the coalescer sends the previous pending entry only if it is non-empty). *)
C10_NoEmptyDataEvent ==
    \A i \in 1..Len(produced) :
        produced[i].type = "DataEvent" => produced[i].entry.data # <<>>

(* C11: a read that times out or returns zero bytes produces no event in
   that iteration and leaves the pending entry (data and timestamp)
   unchanged, whatever the time elapsed since the pending timestamp. *)
C11_QuietRead ==
    \A i \in 1..Len(iter_log) :
        ( /\ iter_log[i].k = "read"
          /\ (~iter_log[i].ok \/ iter_log[i].data = <<>>) ) =>
            /\ i = Len(iter_log)
            /\ last_entry = iter_pre.last_entry

(* C12: the transition Running to Stopped never flushes the pending Rx
   entry: the iteration that consumes Stop sends no DataEvent and leaves the
   pending entry as it was; an Rx DataEvent is sent only by a read whose
   chunk arrives at least 5 ms after the pending timestamp, and it carries
   the entry that was pending. *)
C12_StopNeverFlushes ==
    /\ iter_cmd.type = "Stop" =>
          /\ IterCount("DataEvent") = 0
          /\ IterOps = <<>>
          /\ last_entry = iter_pre.last_entry
    /\ StateEq(state, Stopped) => IterCount("DataEvent") = 0
    /\ \A i \in 1..Len(iter_log) :
          (iter_log[i].k = "emit" /\ IsDataEvent(iter_log[i].ev, "Rx")) =>
              /\ i > 1
              /\ iter_log[i - 1].k = "read"
              /\ iter_log[i - 1].ok
              /\ iter_log[i - 1].t - iter_pre.last_entry.timestamp >= COALESCE_MS
              /\ iter_log[i].ev = DataEvent(iter_pre.last_entry)
              /\ ~StateEq(state, Stopped)

\* a Stop has been consumed while Running with a non-empty entry pending,
\* which is still pending
C12_Witness ==
    /\ iter_cmd.type = "Stop"
    /\ iter_pre.state.tag = "Running"
    /\ iter_pre.last_entry.data # <<>>
    /\ last_entry.data # <<>>
    /\ state = Stopped

(* C13: the front end observes the events in exact production order, none
   dropped or duplicated: after any interleaving of coordinator steps and
   drains (update_history_with_incoming_data), display_history followed by
   the events still in the channel is the sequence of events the coordinator
   produced. *)
C13_Fifo == display_history \o events = produced

\* the history holds drained events, a DataEvent among them, and the
\* coordinator has sent further events since the last drain
C13_Witness ==
    /\ Len(display_history) >= 2
    /\ Len(events) >= 1
    /\ \E i \in 1..Len(display_history) : display_history[i].type = "DataEvent"
    /\ display_history[1] = EvStarted

(* C14: while the state is Stopped the coordinator performs no read or write
   on any port and takes no step until a command is available:
   receive_command in state Stopped blocks and returns only Some(command),
   never None. *)
C14_StoppedBlocks ==
    StateEq(state, Stopped) =>
        /\ pc = "cmd"
        /\ IterOps = <<>>
        /\ cmd_chan = <<>> => ~ENABLED CoordCommand
        /\ ENABLED CoordCommand => receive_command(state, cmd_chan) # NoCmd

(* C15: while Running, command acquisition never blocks: every iteration
   whose state after the command step is Running performs one port read
   (and one port write iff the command consumed in that iteration was a
   non-empty Send), whether or not a command was available in the channel. *)
C15_RunningNeverBlocks ==
    /\ (~StateEq(state, Stopped) /\ pc = "cmd") => ENABLED CoordCommand
    /\ ~StateEq(state, Stopped) =>
          LET NonEmptySend == iter_cmd.type = "Send" /\ Len(iter_cmd.data) # 0
              Writes == SelectSeq(iter_log, LAMBDA x : x.k = "write")
              Reads == SelectSeq(iter_log, LAMBDA x : x.k = "read")
          IN  /\ pc = "write" => (NonEmptySend /\ IterOps = <<>>)
              /\ pc = "read" =>
                    /\ Len(Reads) = 0
                    /\ Len(Writes) = (IF NonEmptySend THEN 1 ELSE 0)
              /\ pc = "cmd" =>
                    /\ Len(Reads) = 1
                    /\ Len(Writes) = (IF NonEmptySend THEN 1 ELSE 0)
                    /\ NonEmptySend => IterOps[1].k = "write" /\ IterOps[2].k = "read"
              /\ \A i \in 1..Len(Writes) : Writes[i].data = iter_cmd.data

\* a Running iteration found no command in the channel and has done its one
\* read and no write; the next iteration can start with the channel empty
C15_Witness ==
    /\ state.tag = "Running"
    /\ iter_pre.state.tag = "Running"
    /\ iter_cmd = NoCmd
    /\ pc = "cmd"
    /\ Len(IterOps) = 1
    /\ IterOps[1].k = "read"
    /\ cmd_chan = <<>>
    /\ ENABLED CoordCommand

\* a step that polls a command out of the channel
PollStep == Len(cmd_chan') < Len(cmd_chan)

(* C16 as claimed: a Stop sent while the coordinator is Running is observed
   at the coordinator's next command poll, whatever the channel held when it
   was sent: the poll that follows leaves the state Stopped. *)
C16_Original ==
    [][ ( /\ PollStep
          /\ \E i \in 1..Len(cmd_chan) :
                cmd_chan[i].type = "Stop" /\ sent_at[i].tag = "Running" )
        => StateEq(state', Stopped) ]_vars

(* C16 amended: a Stop is observed in its turn.  Every poll takes exactly the
   oldest command out of the channel and a send appends behind the commands
   in flight, so a Stop sent with k commands ahead of it is taken by the
   (k+1)-th poll after it was sent; that poll leaves the state Stopped, and a
   poll that takes another command while Running leaves the state as it is. *)
C16_StopInTurn ==
    [][ /\ PollStep =>
              /\ cmd_chan' = Tail(cmd_chan)
              /\ sent_at' = Tail(sent_at)
              /\ iter_cmd' = Head(cmd_chan)
              /\ Head(cmd_chan).type = "Stop" => StateEq(state', Stopped)
              /\ (Head(cmd_chan).type # "Stop" /\ ~StateEq(state, Stopped))
                    => state' = state
        /\ Len(cmd_chan') > Len(cmd_chan) =>
              /\ Len(cmd_chan') = Len(cmd_chan) + 1
              /\ SubSeq(cmd_chan', 1, Len(cmd_chan)) = cmd_chan
              /\ cmd_chan'[Len(cmd_chan')].type = "Stop" =>
                    sent_at'[Len(cmd_chan')] = SentAt(state.tag, Len(cmd_chan))
      ]_vars

\* a Stop sent while Running behind at least one other command has been
\* taken in its turn, and the state is Stopped
C16_Witness ==
    /\ iter_cmd.type = "Stop"
    /\ iter_pre.sent_at.tag = "Running"
    /\ iter_pre.sent_at.ahead >= 1
    /\ iter_pre.state.tag = "Running"
    /\ state = Stopped

\* the context c is in a Start command that has not been consumed yet
InFlight(c) ==
    \E i \in 1..Len(cmd_chan) : cmd_chan[i].type = "Start" /\ cmd_chan[i].ctx = c

(* C17: in every reachable state the coordinator holds a context if and only
   if its state is Running, and it holds at most one; every context handed
   over by a consumed Start is either the one held or has been dropped, never
   both; the context held during one Running period never changes. *)
C17_ContextOwnership ==
    /\ (state.ctx # NoCtx) <=> ~StateEq(state, Stopped)
    /\ \A c \in 1..next_ctx :
          /\ InFlight(c) \/ c = state.ctx \/ c \in dropped
          /\ ~(InFlight(c) /\ c = state.ctx)
          /\ ~(InFlight(c) /\ c \in dropped)
          /\ ~(c = state.ctx /\ c \in dropped)
    /\ dropped \subseteq 1..next_ctx
    /\ state.ctx \in 0..next_ctx
    /\ (~StateEq(iter_pre.state, Stopped) /\ ~StateEq(state, Stopped)) =>
          state.ctx = iter_pre.state.ctx

\* the coordinator is Running and holds one of at least two contexts handed
\* over; another one has been dropped
C17_Witness ==
    /\ state.tag = "Running"
    /\ state.ctx # NoCtx
    /\ next_ctx >= 2
    /\ \E c \in 1..next_ctx : c # state.ctx /\ c \in dropped
    /\ ~\E c \in 1..next_ctx : InFlight(c)

(* C18: the coordinator loop has no fatal path: for every sequence of
   commands, port read and write outcomes and channel conditions (an event
   send that fails because the front end dropped the event receiver
   included) the loop neither panics nor terminates. *)
C18_NoFatalPath == pc # "panicked"

\* the bytes of a sequence of reads, in order
RECURSIVE ReadBytes(_)
ReadBytes(reads) ==
    IF reads = <<>> THEN <<>>
    ELSE Head(reads).data \o ReadBytes(Tail(reads))

\* the Rx entries the current iteration has sent; the reads that made up each
\* of them are iter_pre.pending_reads, a read being the only sender
IterRxEntries ==
    {iter_log[i].ev.entry : i \in {j \in 1..Len(iter_log) :
        iter_log[j].k = "emit" /\ IsDataEvent(iter_log[j].ev, "Rx")}}

(* C19 as claimed: every emitted Rx DataEvent satisfies the coalescing-window
   invariant: each chunk in its payload was read less than 5 ms after the
   entry's timestamp, and the entry's timestamp is the read time of its
   first chunk. *)
C19_Original ==
    \A e \in IterRxEntries :
        \* the chunks contained in the payload: the reads that returned bytes
        LET reads == SelectSeq(iter_pre.pending_reads, LAMBDA r : r.data # <<>>)
        IN  /\ e.data = ReadBytes(reads)
            /\ \A j \in 1..Len(reads) : reads[j].t - e.timestamp < COALESCE_MS
            /\ reads # <<>> => e.timestamp = reads[1].t

\* the window invariant of an entry e made up of the given reads: every chunk
\* was read less than 5 ms after e.timestamp; the chunks after the first were
\* read at or after e.timestamp; the first was read at or before it, unless e
\* is the entry the thread started with, stamped when the thread was spawned
InWindow(e, reads) ==
    /\ e.data = ReadBytes(reads)
    /\ e.rx_tx = "Rx"
    /\ \A j \in 1..Len(reads) : reads[j].t - e.timestamp < COALESCE_MS
    /\ \A j \in 2..Len(reads) : reads[j].t >= e.timestamp
    /\ reads # <<>> => (reads[1].t <= e.timestamp \/ e.timestamp = 0)

(* C19 amended: every emitted Rx DataEvent, and the pending entry at all
   times, satisfies the window invariant: each chunk in its payload was read
   less than 5 ms after the entry's timestamp.  The timestamp is not the read
   time of the first chunk: it is a clock reading taken after the first chunk
   was read (and after the previous entry was sent), or, for the entry the
   thread starts with, the time the thread was spawned. *)
C19_Window ==
    /\ InWindow(last_entry, pending_reads)
    /\ \A e \in IterRxEntries :
          /\ e = iter_pre.last_entry
          /\ InWindow(e, iter_pre.pending_reads)

\* an Rx DataEvent has been sent whose payload holds a chunk, and whose
\* timestamp is not the time that chunk was read
C19_Witness ==
    /\ IterRxEntries # {}
    /\ iter_pre.pending_reads # <<>>
    /\ iter_pre.pending_reads[1].data # <<>>
    /\ iter_pre.pending_reads[1].t # iter_pre.last_entry.timestamp
    /\ iter_pre.last_entry.data # <<>>

\* the byte values the port reads have returned so far, and the byte values
\* the front end has put into Send commands so far
ReadByteValues == {RxBase + k : k \in 1..n_reads}
SentByteValues == 1..n_cmds

(* C20: transmits are never coalesced with receives: every DataEvent is
   either Tx, its payload the bytes of exactly one Send command, handed to
   one port write, or Rx, holding only bytes returned by port reads; the
   pending entry always has direction Rx and never holds transmitted bytes. *)
C20_TxRxApart ==
    /\ \A i \in 1..Len(produced) :
          produced[i].type = "DataEvent" =>
              LET e == produced[i].entry
              IN  \/ /\ e.rx_tx = "Tx"
                     /\ Len(e.data) = 1
                     /\ e.data[1] \in SentByteValues
                     /\ \E j \in 1..Len(wire) : wire[j] = e.data
                     /\ \A j \in 1..Len(produced) :
                           (j # i /\ IsDataEvent(produced[j], "Tx")) =>
                               produced[j].entry.data # e.data
                  \/ /\ e.rx_tx = "Rx"
                     /\ Bytes(e.data) \subseteq ReadByteValues
    /\ last_entry.rx_tx = "Rx"
    /\ Bytes(last_entry.data) \subseteq ReadByteValues
    /\ ReadByteValues \cap SentByteValues = {}

\* a Tx DataEvent has been sent and, after it, an Rx DataEvent with bytes
\* whose entry was already the pending one when the Tx DataEvent was sent
C20_Witness ==
    \E i, j \in 1..Len(produced) :
        /\ i < j
        /\ IsDataEvent(produced[i], "Tx")
        /\ IsDataEvent(produced[j], "Rx")
        /\ produced[j].entry.data # <<>>
        /\ produced[j].entry.timestamp <= produced[i].entry.timestamp

\* within the log of one iteration: the events of the command come before
\* every port operation, and a write comes before the read
IterInOrder ==
    \A i, j \in 1..Len(iter_log) :
        i < j =>
            /\ ~(iter_log[i].k = "read" /\ iter_log[j].k = "write")
            /\ ~(iter_log[i].k \in {"write", "read"}
                    /\ iter_log[j].k = "emit"
                    /\ iter_log[j].ev.type \in {"Started", "Stopped"})

(* C27: each coordinator iteration consumes at most one command, and the
   commands are applied to the lifecycle state in exactly the order the
   front end sent them (FIFO); within an iteration the command is applied
   first, then the write is made, then the read. *)
C27_OneCommandInOrder ==
    [][ \* only the command step takes a command, and it takes one
        /\ Len(cmd_chan') >= Len(cmd_chan) - 1
        /\ pc # "cmd" => Len(cmd_chan') >= Len(cmd_chan)
        \* the command taken is the oldest one; the others keep their order
        /\ PollStep =>
              /\ pc = "cmd"
              /\ iter_cmd' = Head(cmd_chan)
              /\ cmd_chan' = Tail(cmd_chan)
              \* it is applied to the state before any port operation
              /\ IterOps' = <<>>
              /\ Head(cmd_chan).type = "Stop" => state' = Stopped
              /\ Head(cmd_chan).type = "Start" =>
                    state' = (IF state = Stopped THEN Running(Head(cmd_chan).ctx)
                              ELSE state)
              /\ Head(cmd_chan).type = "Send" => state' = state
        \* a command sent goes behind the commands in flight
        /\ Len(cmd_chan') > Len(cmd_chan) =>
              SubSeq(cmd_chan', 1, Len(cmd_chan)) = cmd_chan
        \* the state changes in the command step only
        /\ state' # state => (pc = "cmd" /\ PollStep)
        \* then the write, then the read
        /\ IterInOrder'
        /\ (pc = "write" /\ pc' = "read") =>
              /\ Len(IterOps') = 1
              /\ IterOps'[1].k = "write"
        /\ (pc \in {"write", "read"} /\ pc' = "cmd") =>
              /\ IterOps'[Len(IterOps')].k = "read"
              /\ (iter_cmd.type = "Send" /\ iter_cmd.data # <<>>) =>
                    /\ Len(IterOps') = 2
                    /\ IterOps'[1].k = "write"
      ]_vars

\* an iteration has taken a non-empty Send, the second command sent, has
\* written it and then read, while a later command waits in the channel
C27_Witness ==
    /\ iter_cmd.type = "Send"
    /\ iter_cmd.data # <<>>
    /\ Len(IterOps) = 2
    /\ IterOps[1].k = "write"
    /\ IterOps[2].k = "read"
    /\ pc = "cmd"
    /\ cmd_chan # <<>>
    /\ n_cmds = Len(cmd_chan) + 2

\* the events that answer a write attempt
IsWriteAnswer(ev) == IsDataEvent(ev, "Tx") \/ ev.type = "ErrorEvent"

(* C28: each Send consumed while Running causes at most one write attempt:
   after the attempt, successful or failed, its bytes are dropped and never
   written to the port in a later iteration, and every such non-empty Send
   yields exactly one of Tx DataEvent or ErrorEvent. *)
C28_OneWritePerSend ==
    \* no buffer is handed to p.write twice
    /\ \A i, j \in 1..Len(wire) : i # j => wire[i] # wire[j]
    \* every write attempt is answered by exactly one event
    /\ Len(SelectSeq(produced, IsWriteAnswer)) = Len(wire)
    \* the non-empty Send of this iteration: one attempt, one answer
    /\ ( /\ iter_cmd.type = "Send"
         /\ iter_cmd.data # <<>>
         /\ ~StateEq(iter_pre.state, Stopped)
         /\ pc # "write" ) =>
            /\ Len(SelectSeq(wire, LAMBDA w : w = iter_cmd.data)) = 1
            /\ Len(SelectSeq(IterEmits, IsWriteAnswer)) = 1
            /\ \A i \in 1..Len(iter_log) :
                  iter_log[i].k = "write" =>
                      /\ iter_log[i].data = iter_cmd.data
                      /\ iter_log[i + 1].k = "emit"
                      /\ iter_log[i + 1].ev =
                            (IF iter_log[i].ok
                             THEN DataEvent(HistoryEntry(iter_log[i].t, "Tx", iter_cmd.data))
                             ELSE ErrorEvent(WRITE_ERROR_TEXT))
    \* an iteration without a non-empty Send writes nothing
    /\ ~(iter_cmd.type = "Send" /\ iter_cmd.data # <<>>) =>
            SelectSeq(iter_log, LAMBDA x : x.k = "write") = <<>>

\* a write of a Send failed, and a later iteration without a Send has run:
\* the bytes were written once and answered by one ErrorEvent
C28_Witness ==
    /\ Len(wire) = 1
    /\ Len(SelectSeq(produced, LAMBDA ev : ev.type = "ErrorEvent")) = 1
    /\ iter_cmd = NoCmd
    /\ state.tag = "Running"
    /\ Len(IterOps) = 1
    /\ pc = "cmd"

---------------------------------------------------------------------------
(* The analyzer as a state machine: the port thread puts events on the
   channel, update_data moves them to display_history, a frame is drawn by
   render and then one operation of AnalyzerMode is called *)

MaxBufLen == 10    \* bytes of the longest payload
MaxCursor == 7     \* cursor_right is not called beyond this position
MaxLine == 1       \* scroll_analyzer_cursor_up is not called beyond this line
MaxScroll == 1     \* scroll_up is not called beyond this offset
MaxAdded == 1      \* ErrorEvents of add_to_history in the history at a time

Ramp(n) == [i \in 1..n |-> i]
Rx(d) == DataEvent(HistoryEntry(0, "Rx", d))
Tx(d) == DataEvent(HistoryEntry(0, "Tx", d))

\* what the port thread sends first: one of these event sequences
AnalyzerChannels ==
    {<<EvStarted, Rx(Ramp(8)), Rx(Ramp(3)), Tx(<<9>>)>>,
     <<Rx(<<>>), Rx(Ramp(MaxBufLen)), Rx(<<0, 0, 0, 1>>)>>,
     <<Rx(<<255, 255, 255, 255>>), ErrorEvent(WRITE_ERROR_TEXT),
       Rx(<<1, 2, 0, 0, 0, 0, 0, 0>>), Rx(Ramp(1))>>,
     <<EvStarted, Rx(Ramp(2)), Tx(Ramp(4)), EvStopped>>,
     <<Rx(<<65>>), Rx(<<127, 128, 200>>), Tx(<<9, 10, 99, 100, 255>>)>>,
     <<Rx(<<128, 0, 0, 0, 0, 0, 0, 255>>), Rx(<<0>>), Tx(Ramp(9))>>}

\* and what it sends after that
Late == <<Rx(<<9>>)>>

\* the heights of the area a frame is drawn in
Heights == {1, 4}

\* the arguments of add_to_history
AddedTexts == {"Failed to open port"}

InitAnalyzer ==
    /\ InitCoord
    /\ app = AppDefault
    /\ analyzer = AnalyzerModeNew
    /\ analyzer_view = NoView
    /\ settings = SettingsModeNew("")
    /\ settings_out = NoPortResult
    /\ config_file = NoFile
    /\ interactive = InteractiveModeNew
    /\ interactive_out = NoInputOut

\* an operation is called after a frame was drawn without a panic
KeyTurn == analyzer_view.op = "render" /\ ~analyzer_view.line.panic
                                       /\ ~analyzer_view.panel.panic

\* the state changes of the key handlers
cursor_left(a) ==
    [a EXCEPT !.analyzer_cursor_pos = saturating_sub(a.analyzer_cursor_pos, 1)]
cursor_right(a) ==
    [a EXCEPT !.analyzer_cursor_pos = a.analyzer_cursor_pos + 1]
scroll_analyzer_cursor_up(a) ==
    [a EXCEPT !.analyzer_cursor_line = a.analyzer_cursor_line + 1]
scroll_analyzer_cursor_down(a) ==
    [a EXCEPT !.analyzer_cursor_line = saturating_sub(a.analyzer_cursor_line, 1)]
scroll_up(a) == [a EXCEPT !.scroll_offset = a.scroll_offset + 1]
scroll_down(a) == [a EXCEPT !.scroll_offset = saturating_sub(a.scroll_offset, 1)]
rotate_analyzer_endianness(a) ==
    [a EXCEPT !.analyzer_endianness = IF a.analyzer_endianness = "Big"
                                      THEN "Little" ELSE "Big"]
set_active_inactive(a, active) == [a EXCEPT !.active = active]

\* AnalyzerMode::handle_key_event
handle_key_event(a, key) ==
    CASE key = "Left"     -> cursor_left(a)
      [] key = "Right"    -> cursor_right(a)
      [] key = "Up"       -> scroll_analyzer_cursor_up(a)
      [] key = "Down"     -> scroll_analyzer_cursor_down(a)
      [] key = "PageUp"   -> scroll_up(a)
      [] key = "PageDown" -> scroll_down(a)
      [] key = "e"        -> rotate_analyzer_endianness(a)
      [] OTHER            -> a

\* update_data: update_history_with_incoming_data, which moves every event
\* of the channel to the history, then the display mode is stored
update_data(a, history, data_source, display_mode) ==
    [mode |-> [a EXCEPT !.active_display_mode = display_mode],
     display_history |-> history \o data_source,
     data_source |-> <<>>]

\* clear_history and add_to_history, on the history
clear_history(history) == <<>>
add_to_history(history, arg) == Append(history, ErrorEvent(arg))

\* the variables of the coordinator that the analyzer does not touch
analyzer_rest == <<state, last_entry, data_to_send, pc, cmd_chan, now,
                   dropped, next_ctx, n_cmds, n_reads, iter_cmd, iter_pre,
                   iter_log, wire, stopped_sends, front_alive, sent_at,
                   pending_reads>>

\* an operation of AnalyzerMode has run: the frame on the screen is that of
\* the state before it
AnalyzerStep(next, history, channel) ==
    /\ analyzer' = next
    /\ display_history' = history
    /\ events' = channel
    /\ analyzer_view' = View("stale", next, NoFrame, NoPanel)
    /\ UNCHANGED <<analyzer_rest, produced, app, settings, settings_out, config_file,
                   interactive, interactive_out>>

AnalyzerKey(key) ==
    AnalyzerStep(handle_key_event(analyzer, key), display_history, events)

KeyLeft ==
    /\ KeyTurn
    /\ AnalyzerKey("Left")

KeyRight ==
    /\ KeyTurn
    /\ analyzer.analyzer_cursor_pos < MaxCursor
    /\ AnalyzerKey("Right")

KeyUp ==
    /\ KeyTurn
    /\ analyzer.analyzer_cursor_line < MaxLine
    /\ AnalyzerKey("Up")

KeyDown ==
    /\ KeyTurn
    /\ AnalyzerKey("Down")

KeyPageUp ==
    /\ KeyTurn
    /\ analyzer.scroll_offset < MaxScroll
    /\ AnalyzerKey("PageUp")

KeyPageDown ==
    /\ KeyTurn
    /\ AnalyzerKey("PageDown")

KeyEndianness ==
    /\ KeyTurn
    /\ AnalyzerKey("e")

\* a key without an arm of its own
KeyOther ==
    /\ KeyTurn
    /\ AnalyzerKey("x")

SetActive == \E active \in BOOLEAN :
    /\ KeyTurn
    /\ AnalyzerStep(set_active_inactive(analyzer, active), display_history,
                    events)

UpdateData == \E display_mode \in Range(DISPLAY_MODES) :
    /\ KeyTurn
    /\ LET r == update_data(analyzer, display_history, events, display_mode)
       IN  AnalyzerStep(r.mode, r.display_history, r.data_source)

ClearHistory ==
    /\ KeyTurn
    /\ AnalyzerStep(analyzer, clear_history(display_history), events)

AddToHistory == \E arg \in AddedTexts :
    /\ KeyTurn
    /\ Len(SelectSeq(display_history,
                     LAMBDA x : x = ErrorEvent(arg))) < MaxAdded
    /\ AnalyzerStep(analyzer, add_to_history(display_history, arg), events)

\* the port thread sends its first events, and later one more
Arrive == \E chunk \in AnalyzerChannels \cup {Late} :
    /\ IF produced = <<>> THEN chunk \in AnalyzerChannels
       ELSE produced \in AnalyzerChannels /\ chunk = Late
    /\ events' = events \o chunk
    /\ produced' = produced \o chunk
    /\ UNCHANGED <<analyzer_rest, display_history, ui_vars>>

\* terminal.draw: AnalyzerMode::render on an area of num_rows rows, in a
\* build with or without overflow checks
Render == \E num_rows \in Heights, overflow_checks \in BOOLEAN :
    /\ ~analyzer_view.line.panic /\ ~analyzer_view.panel.panic
    /\ analyzer_view' = render(analyzer, display_history, num_rows,
                               overflow_checks)
    /\ UNCHANGED <<coord_vars, app, analyzer, settings, settings_out, config_file,
                   interactive, interactive_out>>

NextAnalyzer ==
    \/ KeyLeft
    \/ KeyRight
    \/ KeyUp
    \/ KeyDown
    \/ KeyPageUp
    \/ KeyPageDown
    \/ KeyEndianness
    \/ KeyOther
    \/ SetActive
    \/ UpdateData
    \/ ClearHistory
    \/ AddToHistory
    \/ Arrive
    \/ Render

SpecAnalyzer == InitAnalyzer /\ [][NextAnalyzer]_vars

---------------------------------------------------------------------------
(* Claims on the analyzer panel *)

\* a frame whose analyzer panel was computed: drawn from an active analyzer
\* in Hex mode, the cursor line not having panicked
PanelDrawn ==
    /\ analyzer_view.op = "render"
    /\ ~analyzer_view.line.panic
    /\ analyzer_view.pre.active
    /\ analyzer_view.pre.active_display_mode = "Hex"

Labels(items) == {items[i].label : i \in 1..Len(items)}

\* the number of bytes an item of the panel is decoded from
WidthOf(label) ==
    CASE label \in {"binary", "u8"} -> 1
      [] label \in {"u16", "i16"} -> 2
      [] label \in {"u32", "i32", "f32"} -> 4
      [] label \in {"u64", "i64", "f64"} -> 8

\* C21: for a buffer of n bytes and cursor c the panel shows nothing if
\* c >= n; otherwise the 8-bit items always, the 16-bit items iff c + 2 <= n,
\* the 32-bit items iff c + 4 <= n, the 64-bit items iff c + 8 <= n; no
\* index or slice reaches past the end of the buffer.
C21_WidthGating ==
    PanelDrawn =>
        LET c == analyzer_view.pre.analyzer_cursor_pos
            n == Len(analyzer_view.analyzer_data)
            items == analyzer_view.panel.items
            shown == Labels(items)
        IN  /\ ~analyzer_view.panel.panic
            /\ c >= n => items = <<>>
            /\ c < n =>
                 /\ \A l \in {"binary", "u8", "u16", "i16", "u32", "i32", "f32",
                              "u64", "i64", "f64"} :
                        l \in shown <=> c + WidthOf(l) <= n
                 /\ \A l \in shown : c + WidthOf(l) <= n
                 /\ {"binary", "u8"} \subseteq shown

\* the spec's example: 8 bytes, cursor 6, the 8-bit and 16-bit items only
C21_Witness ==
    /\ PanelDrawn
    /\ Len(analyzer_view.analyzer_data) = 8
    /\ analyzer_view.pre.analyzer_cursor_pos = 6
    /\ Labels(analyzer_view.panel.items) = {"binary", "u8", "u16", "i16"}

\* the number with base-256 digits w, most significant first, times sign
RECURSIVE Num(_, _)
Num(w, sign) ==
    IF w = <<>> THEN 0
    ELSE Num(SubSeq(w, 1, Len(w) - 1), sign) * 256 + sign * w[Len(w)]

\* the number shown by a signed item
SNum(v) == IF v.neg THEN Num(v.mag, -1) ELSE Num(v.mag, 1)

\* the positional value of a byte string: first byte most significant (Big)
\* or least significant (Little)
RECURSIVE LittleValue(_)
LittleValue(b) == IF b = <<>> THEN 0 ELSE Head(b) + 256 * LittleValue(Tail(b))
RECURSIVE BigValue(_)
BigValue(b) ==
    IF b = <<>> THEN 0 ELSE BigValue(SubSeq(b, 1, Len(b) - 1)) * 256 + b[Len(b)]
Positional(b, endianness) ==
    IF endianness = "Big" THEN BigValue(b) ELSE LittleValue(b)

RECURSIVE Pow256(_)
Pow256(i) == IF i = 0 THEN 1 ELSE 256 * Pow256(i - 1)

\* the two's complement value of the same byte string: the most significant
\* byte counts as signed
TwosComplement(b, endianness) ==
    LET k == Len(b)
        top == IF endianness = "Big" THEN b[1] ELSE b[k]
        rest == IF endianness = "Big" THEN SubSeq(b, 2, k) ELSE SubSeq(b, 1, k - 1)
    IN  (IF top >= 128 THEN top - 256 ELSE top) * Pow256(k - 1)
            + Positional(rest, endianness)

\* the byte of b with weight 256^j
ByteOfWeight(b, endianness, j) ==
    IF endianness = "Big" THEN b[Len(b) - j] ELSE b[j + 1]

\* C22: the u16 and u32 items are the big-endian positional value of the
\* bytes at the cursor when the endianness is Big and the little-endian
\* value when it is Little; i16 and i32 are the two's complement reading of
\* the same bytes.  (A u32 of 2^31 or more is compared digit by digit.)
C22_Endianness ==
    PanelDrawn =>
        LET c == analyzer_view.pre.analyzer_cursor_pos
            e == analyzer_view.pre.analyzer_endianness
            items == analyzer_view.panel.items
            BytesAt(k) == SubSeq(analyzer_view.analyzer_data, c + 1, c + k)
        IN  \A i \in 1..Len(items) :
                LET l == items[i].label
                    v == items[i].value
                    b == BytesAt(WidthOf(l))
                IN  /\ l \in {"u16", "u32"} =>
                        /\ Len(v) = Len(b)
                        /\ \A j \in 0..(Len(b) - 1) :
                               v[Len(v) - j] = ByteOfWeight(b, e, j)
                        /\ v[1] < 128 => Num(v, 1) = Positional(b, e)
                    /\ l \in {"i16", "i32"} => SNum(v) = TwosComplement(b, e)

\* the spec's example, bytes 00 00 00 01 at cursor 0 in Little: u32 is
\* 16777216 (and i16 of the first two bytes is 0)
C22_Witness ==
    /\ PanelDrawn
    /\ analyzer_view.analyzer_data = <<0, 0, 0, 1>>
    /\ analyzer_view.pre.analyzer_cursor_pos = 0
    /\ analyzer_view.pre.analyzer_endianness = "Little"
    /\ \E i \in 1..Len(analyzer_view.panel.items) :
          /\ analyzer_view.panel.items[i].label = "u32"
          /\ Num(analyzer_view.panel.items[i].value, 1) = 16777216

\* the same bytes in Big: u32 is 1; and a negative i32 is shown for FF FF FF FF
C22_WitnessBig ==
    /\ PanelDrawn
    /\ analyzer_view.analyzer_data = <<255, 255, 255, 255>>
    /\ analyzer_view.pre.analyzer_endianness = "Big"
    /\ \E i \in 1..Len(analyzer_view.panel.items) :
          /\ analyzer_view.panel.items[i].label = "i32"
          /\ SNum(analyzer_view.panel.items[i].value) = -1

\* the bit pattern of a signed item, as digits
PatternOf(v) ==
    IF v.neg THEN Incr([i \in 1..Len(v.mag) |-> 255 - v.mag[i]]) ELSE v.mag

\* C23: the u64, i64 and f64 items are decoded little-endian whatever the
\* endianness toggle says: the byte at the cursor is the least significant.
C23_WideLittleEndian ==
    PanelDrawn =>
        LET c == analyzer_view.pre.analyzer_cursor_pos
            items == analyzer_view.panel.items
            b == SubSeq(analyzer_view.analyzer_data, c + 1, c + 8)
        IN  \A i \in 1..Len(items) :
                LET l == items[i].label
                    v == items[i].value
                    w == IF l = "i64" THEN PatternOf(v) ELSE v
                IN  l \in {"u64", "i64", "f64"} =>
                        /\ Len(w) = 8
                        /\ \A j \in 0..7 : w[8 - j] = ByteOfWeight(b, "Little", j)
                        /\ l = "i64" => (v.neg <=> b[8] >= 128)
                        /\ (l = "u64" /\ \A j \in 1..5 : v[j] = 0) =>
                               Num(v, 1) = LittleValue(SubSeq(b, 1, 3))

\* bytes 01 02 00 00 00 00 00 00 with the toggle on Big: u64 is still 513
C23_Witness ==
    /\ PanelDrawn
    /\ analyzer_view.analyzer_data = <<1, 2, 0, 0, 0, 0, 0, 0>>
    /\ analyzer_view.pre.analyzer_cursor_pos = 0
    /\ analyzer_view.pre.analyzer_endianness = "Big"
    /\ \E i \in 1..Len(analyzer_view.panel.items) :
          /\ analyzer_view.panel.items[i].label = "u64"
          /\ Num(analyzer_view.panel.items[i].value, 1) = 513

---------------------------------------------------------------------------
(* Claims on the analyzer cursor and on the cursor line *)

\* C24: on a displayed entry of length len > 0 the analyzer cursor stays in
\* [0, len) under cursor_left and cursor_right (no effect at position 0 and
\* at len - 1, one step otherwise, never wrapping).  cursor_right adds one
\* without looking at the entry, so the cursor leaves the range.
C24_CursorInRange ==
    (/\ analyzer_view.op = "render"
     /\ analyzer_view.split
     /\ Len(analyzer_view.cursor_data) > 0) =>
        analyzer_view.pre.analyzer_cursor_pos < Len(analyzer_view.cursor_data)

\* what does hold of the two handlers: left saturates at 0, right always
\* advances by one
C24_Steps ==
    [][/\ KeyLeft => analyzer'.analyzer_cursor_pos =
                        IF analyzer.analyzer_cursor_pos = 0 THEN 0
                        ELSE analyzer.analyzer_cursor_pos - 1
       /\ KeyRight => analyzer'.analyzer_cursor_pos =
                         analyzer.analyzer_cursor_pos + 1]_vars

\* C25: in Hex mode every byte takes 3 characters, and for every payload
\* length, 0 included, and every cursor position build_list_items splits the
\* line without an out-of-range index or an unsigned underflow.  For the
\* empty payload `bytes.len() - 3` underflows.
C25_SplitNeverPanics ==
    analyzer_view.op = "render" => ~analyzer_view.line.panic

\* the text of a Line of a DataEvent
LineText(parts) ==
    parts.pre_cursor \o parts.cursor \o parts.highlight_string
        \o parts.post_cursor

\* what does hold for a payload that is not empty: no panic, 3 characters
\* per byte on every row, and on the row of the cursor the parts concatenate
\* to the line, the highlight is at most 24 characters and, with the cursor
\* inside the payload, the cursor part is the two hex digits of byte `cursor`
C25_SplitOfNonEmpty ==
    (/\ analyzer_view.op = "render"
     /\ analyzer_view.pre.active_display_mode = "Hex"
     /\ \A i \in 1..Len(display_history) :
           display_history[i].type = "DataEvent" =>
               display_history[i].entry.data # <<>>) =>
        LET a == analyzer_view.pre
            line == analyzer_view.line
            data == analyzer_view.cursor_data
            bytes == format_data_for_display("Hex", data)
            c == a.analyzer_cursor_pos
            rows == take(skip(Reverse(display_history), a.scroll_offset),
                         Len(analyzer_view.items))
        IN  /\ ~line.panic
            /\ \A i \in 1..Len(rows) :
                   rows[i].type = "DataEvent" =>
                       Len(LineText(analyzer_view.items[i].parts)) =
                           3 * Len(rows[i].entry.data)
            /\ analyzer_view.split =>
                   /\ LineText(line) = bytes
                   /\ Len(line.highlight_string) <= HIGHLIGHT_MAX
                   /\ c < Len(data) =>
                          /\ Len(line.pre_cursor) = 3 * c
                          /\ line.cursor = FormatHex(data[c + 1])

---------------------------------------------------------------------------
(* The settings as a state machine: the program starts with or without a
   config file, the keys rotate the parameters and write the config file,
   a connect calls create_serial_context with any outcome of the port
   operations, and the program may be started again *)

\* the lists available_ports can answer with
PortLists == {PortsErr, <<>>, <<"ttyUSB0">>, <<"ttyUSB0", "ttyS1">>}

\* the config files the program may find at its first start: none, one that
\* does not deserialize, and two written by hand
ConfigFiles ==
    {NoFile, Garbage,
     Stored(SettingsMode("ttyS9", 2, "Even", 7)),
     Stored(SettingsMode("COM7", 9, "E", 4))}

InitSettings ==
    /\ InitCoord
    /\ app = AppDefault
    /\ \E file \in ConfigFiles, ports \in PortLists :
          /\ config_file = file
          /\ settings = new(file, ports)
          /\ settings_out = SettingsOut("new", settings, FALSE, NoOutcomes,
                                        NoResult)
    /\ analyzer = AnalyzerModeNew
    /\ analyzer_view = NoView
    /\ interactive = InteractiveModeNew
    /\ interactive_out = NoInputOut

rotate_stopbits(s) == [s EXCEPT !.stopbits = RotateIn(STOP_BITS, s.stopbits)]
rotate_parity(s) == [s EXCEPT !.parity = RotateIn(PARITY, s.parity)]
rotate_databits(s) == [s EXCEPT !.databits = RotateIn(DATABITS, s.databits)]

\* SettingsMode::handle_key_event, the match on the key: ports is what
\* available_ports answers.  The keys 'b' and 'm' rotate the baud rate and
\* the display mode, which are not part of the settings here
settings_handle_key_event(s, key, ports) ==
    CASE key = "p" -> rotate_port(s, ports)
      [] key = "s" -> rotate_stopbits(s)
      [] key = "a" -> rotate_parity(s)
      [] key = "d" -> rotate_databits(s)
      [] OTHER     -> s

\* SettingsMode::handle_key_event: the match, then try_write_config_file
SettingsKey(key, ports, fo) ==
    /\ ~settings_out.panic
    /\ settings' = settings_handle_key_event(settings, key, ports)
    /\ config_file' = try_write_config_file(settings', config_file, fo)
    /\ settings_out' = SettingsOut("handle_key_event", settings,
                                   fo = "denied", NoOutcomes, NoResult)
    /\ UNCHANGED <<coord_vars, app, analyzer, analyzer_view,
                   interactive, interactive_out>>

RotatePort == \E ports \in PortLists, fo \in FileOutcomes :
    SettingsKey("p", ports, fo)

RotateStopbits == \E fo \in FileOutcomes :
    SettingsKey("s", PortsErr, fo)

RotateParity == \E fo \in FileOutcomes :
    SettingsKey("a", PortsErr, fo)

RotateDatabits == \E fo \in FileOutcomes :
    SettingsKey("d", PortsErr, fo)

\* the keys 'b' and 'm' and the keys without an arm
SettingsKeyOther == \E fo \in FileOutcomes :
    SettingsKey("x", PortsErr, fo)

CreateSerialContext == \E oc \in PortOutcomes :
    /\ ~settings_out.panic
    /\ settings_out' = SettingsOut("create_serial_context", settings, FALSE,
                                   oc, create_serial_context(settings, oc))
    /\ UNCHANGED <<coord_vars, app, settings, config_file, analyzer,
                   analyzer_view, interactive, interactive_out>>

\* the program is started again: SettingsMode::new() with the config file
\* the last run has left
StartAgain == \E ports \in PortLists :
    /\ settings' = new(config_file, ports)
    /\ settings_out' = SettingsOut("new", settings', FALSE, NoOutcomes,
                                   NoResult)
    /\ UNCHANGED <<coord_vars, app, config_file, analyzer, analyzer_view,
                   interactive, interactive_out>>

NextSettings ==
    \/ RotatePort
    \/ RotateStopbits
    \/ RotateParity
    \/ RotateDatabits
    \/ SettingsKeyOther
    \/ CreateSerialContext
    \/ StartAgain

SpecSettings == InitSettings /\ [][NextSettings]_vars

\* C26: create_serial_context returns a typed result and nothing else:
\* FailedToOpen iff the open fails; BadSettings iff, the port being open,
\* set_read_timeout(125 ms), set_write_timeout(2500 ms) or discard_buffers
\* fails; FailedToFlush iff the flush fails; Ok with a context named after
\* the selected port iff open, both timeouts, flush and discard succeeded,
\* the operations being made in that order.
C26_TypedResult ==
    settings_out.op = "create_serial_context" =>
        LET oc == settings_out.oc
            res == settings_out.res
            order == <<"open", "set_read_timeout", "set_write_timeout", "flush",
                       "discard_buffers">>
            Passed(k) == \A i \in 1..k : oc[order[i]]
        IN  /\ res.result \in {"Ok", "FailedToOpen", "BadSettings", "FailedToFlush"}
            /\ res.result = "FailedToOpen" <=> ~oc.open
            /\ res.result = "BadSettings" <=>
                   \/ Passed(1) /\ ~oc.set_read_timeout
                   \/ Passed(2) /\ ~oc.set_write_timeout
                   \/ Passed(4) /\ ~oc.discard_buffers
            /\ res.result = "FailedToFlush" <=> Passed(3) /\ ~oc.flush
            /\ res.result = "Ok" <=> Passed(5)
            /\ res.result = "Ok" => res.port_name = settings_out.pre.port
            /\ res.result # "Ok" => res.port_name = ""
            /\ \E k \in 1..5 :
                   /\ res.calls = SubSeq(order, 1, k)
                   /\ Passed(k - 1)
                   /\ k < 5 => ~oc[order[k]]
            /\ Len(res.calls) >= 2 => res.read_timeout = 125
            /\ Len(res.calls) >= 3 => res.write_timeout = 2500

\* a flush that fails after both timeouts were set: FailedToFlush, the
\* buffers are not discarded
C26_Witness ==
    /\ settings_out.op = "create_serial_context"
    /\ settings_out.oc.open /\ settings_out.oc.set_read_timeout
    /\ settings_out.oc.set_write_timeout /\ ~settings_out.oc.flush
    /\ settings_out.res.result = "FailedToFlush"
    /\ Len(settings_out.res.calls) = 4

\* C29: create_serial_context configures the parity selected from PARITY:
\* "None" gives Parity::None, "Odd" Parity::Odd, "Even" Parity::Even.  The
\* match arms are "N", "E" and "O", which no entry of PARITY equals.
C29_ParityApplied ==
    (/\ settings_out.op = "create_serial_context"
     /\ settings_out.pre.parity \in Range(PARITY)) =>
        settings_out.res.cfg.parity =
            (CASE settings_out.pre.parity = "None" -> "Parity::None"
               [] settings_out.pre.parity = "Odd" -> "Parity::Odd"
               [] settings_out.pre.parity = "Even" -> "Parity::Even")

\* what does hold: whatever entry of PARITY is selected, the port is opened
\* without parity; a parity is configured only for a string that a config
\* file has brought in
C29_AlwaysNone ==
    settings_out.op = "create_serial_context" =>
        /\ settings_out.pre.parity \in Range(PARITY) =>
               settings_out.res.cfg.parity = "Parity::None"
        /\ settings_out.res.cfg.parity # "Parity::None" =>
               /\ settings_out.pre.parity \in {"E", "O"}
               /\ \E f \in ConfigFiles :
                      f.kind = "settings" /\ f.settings.parity = settings_out.pre.parity

\* a config file with the parity "E": the port is opened with Parity::Even
C29_FromFile ==
    /\ settings_out.op = "create_serial_context"
    /\ settings_out.pre.parity = "E"
    /\ settings_out.res.cfg.parity = "Parity::Even"

---------------------------------------------------------------------------
(* The input line as a state machine: the send buffer is drawn from
   InputBuffers, keys type and delete characters and rotate the input mode
   and the line terminator, Enter sends the buffer; interactive_out is the
   outcome of the last Enter if no other key came after it *)

MaxInputLen == 4

InputChars == {"1", "f", " "}

RECURSIVE SeqsUpTo(_, _)
SeqsUpTo(S, n) ==
    IF n = 0 THEN {<<>>}
    ELSE SeqsUpTo(S, n - 1) \cup [1..n -> S]

InputBuffers == SeqsUpTo(InputChars, MaxInputLen - 1)

InitInput ==
    /\ InitCoord
    /\ app = AppDefault
    /\ \E buf \in InputBuffers : interactive = InteractiveMode(buf, "Default", "None")
    /\ interactive_out = NoInputOut
    /\ analyzer = AnalyzerModeNew
    /\ analyzer_view = NoView
    /\ settings = SettingsModeNew("")
    /\ settings_out = NoPortResult
    /\ config_file = NoFile

rotate_input_mode(m) == [m EXCEPT !.input_mode = RotateIn(INPUT_MODES, m.input_mode)]

rotate_crlf_setting(m) == [m EXCEPT !.crlf = RotateIn(CRLF_SETTINGS, m.crlf)]

\* x.is_ascii_hexdigit()
is_ascii_hexdigit(x) == to_digit(x) # NoDigit

\* KeyCode::Char(x): Hex mode takes hex digits and spaces only
push_char(m, x) ==
    IF m.input_mode = "Hex" /\ ~(is_ascii_hexdigit(x) \/ x = " ")
    THEN m
    ELSE [m EXCEPT !.send_buffer = Append(m.send_buffer, x)]

\* KeyCode::Backspace: send_buffer.pop()
pop_char(m) ==
    IF m.send_buffer = <<>> THEN m
    ELSE [m EXCEPT !.send_buffer = SubSeq(m.send_buffer, 1, Len(m.send_buffer) - 1)]

\* send_tx_buffer: apply_input_mode, apply_crlf_setting, the Send command
\* with a clone of the send buffer, send_buffer.clear(); a panic in
\* apply_input_mode ends it before anything is sent or cleared
send_tx_buffer(m, overflow_checks) ==
    LET r == apply_input_mode(m, overflow_checks)
    IN  [op |-> "send_tx_buffer", pre |-> m, panic |-> r.panic,
         send_buffer |-> r.send_buffer,
         sent |-> IF r.panic THEN <<>>
                  ELSE <<CmdSend(apply_crlf_setting(r.send_buffer, m.crlf))>>,
         left |-> IF r.panic THEN m.send_buffer ELSE <<>>]

RotateInputMode ==
    /\ ~interactive_out.panic
    /\ interactive' = rotate_input_mode(interactive)
    /\ interactive_out' = NoInputOut
    /\ UNCHANGED <<coord_vars, app, analyzer, analyzer_view, settings, settings_out, config_file>>

RotateCrlfSetting ==
    /\ ~interactive_out.panic
    /\ interactive' = rotate_crlf_setting(interactive)
    /\ interactive_out' = NoInputOut
    /\ UNCHANGED <<coord_vars, app, analyzer, analyzer_view, settings, settings_out, config_file>>

KeyChar == \E x \in InputChars :
    /\ ~interactive_out.panic
    /\ Len(interactive.send_buffer) < MaxInputLen
    /\ interactive' = push_char(interactive, x)
    /\ interactive_out' = NoInputOut
    /\ UNCHANGED <<coord_vars, app, analyzer, analyzer_view, settings, settings_out, config_file>>

Backspace ==
    /\ ~interactive_out.panic
    /\ interactive' = pop_char(interactive)
    /\ interactive_out' = NoInputOut
    /\ UNCHANGED <<coord_vars, app, analyzer, analyzer_view, settings, settings_out, config_file>>

SendTxBuffer == \E overflow_checks \in BOOLEAN :
    /\ ~interactive_out.panic
    /\ interactive_out' = send_tx_buffer(interactive, overflow_checks)
    /\ interactive' = [interactive EXCEPT !.send_buffer = interactive_out'.left]
    /\ UNCHANGED <<coord_vars, app, analyzer, analyzer_view, settings, settings_out, config_file>>

NextInput ==
    \/ RotateInputMode
    \/ RotateCrlfSetting
    \/ KeyChar
    \/ Backspace
    \/ SendTxBuffer

SpecInput == InitInput /\ [][NextInput]_vars

\* C30: in Hex input mode apply_input_mode completes without panic for
\* every buffer of hex digits and spaces, the empty buffer, an odd number of
\* digits and a space between two digits included, and yields one byte
\* 16*hi+lo per successive pair of digits; in Default mode the buffer is
\* unchanged.  It panics on the empty buffer and on a space inside a pair.
C30_HexNeverPanics ==
    interactive_out.op = "send_tx_buffer" => ~interactive_out.panic

\* the bytes of the successive pairs of the digit values d
RECURSIVE PairBytes(_)
PairBytes(d) ==
    IF Len(d) < 2 THEN <<>>
    ELSE <<16 * d[1] + d[2]>> \o PairBytes(SubSeq(d, 3, Len(d)))

DigitsOf(buf) ==
    LET ds == SelectSeq(buf, LAMBDA c : c # " ")
    IN  [i \in 1..Len(ds) |-> to_digit(ds[i])]

\* what does hold: Default mode sends the buffer as typed, and a Hex mode
\* conversion that completes yields the bytes of the successive digit pairs
C30_ConvertsWhenDone ==
    (interactive_out.op = "send_tx_buffer" /\ ~interactive_out.panic) =>
        /\ interactive_out.pre.input_mode = "Default" =>
               interactive_out.send_buffer = interactive_out.pre.send_buffer
        /\ interactive_out.pre.input_mode = "Hex" =>
               interactive_out.send_buffer =
                   PairBytes(DigitsOf(interactive_out.pre.send_buffer))

\* the panic is confined to the empty buffer and to a digit followed by a
\* space
C30_PanicCases ==
    (interactive_out.op = "send_tx_buffer" /\ interactive_out.panic) =>
        LET buf == interactive_out.pre.send_buffer
        IN  /\ interactive_out.pre.input_mode = "Hex"
            /\ \/ buf = <<>>
               \/ \E i \in 1..(Len(buf) - 1) : buf[i] # " " /\ buf[i + 1] = " "


\* the bytes the line terminator setting stands for
Terminator(crlf) ==
    CASE crlf = "CR"   -> <<13>>
      [] crlf = "LF"   -> <<10>>
      [] crlf = "CRLF" -> <<13, 10>>
      [] OTHER         -> <<>>

\* the send buffer of m converted as its input mode says
Converted(m) ==
    IF m.input_mode = "Hex" THEN PairBytes(DigitsOf(m.send_buffer))
    ELSE m.send_buffer

\* C31: send_tx_buffer sends exactly one Send command whose payload is the
\* input-mode-converted send buffer followed by nothing / 0x0D / 0x0A /
\* 0x0D 0x0A for the CRLF setting None / CR / LF / CRLF, and leaves the
\* send buffer empty.  Where apply_input_mode panics (C30) nothing is sent.
C31_OneSend ==
    interactive_out.op = "send_tx_buffer" =>
        /\ interactive_out.sent =
               <<CmdSend(Converted(interactive_out.pre)
                         \o Terminator(interactive_out.pre.crlf))>>
        /\ interactive_out.left = <<>>

\* what does hold: a send_tx_buffer that does not panic sends that one
\* command and clears the buffer
C31_OneSendWhenDone ==
    (interactive_out.op = "send_tx_buffer" /\ ~interactive_out.panic) =>
        /\ interactive_out.sent =
               <<CmdSend(Converted(interactive_out.pre)
                         \o Terminator(interactive_out.pre.crlf))>>
        /\ interactive_out.left = <<>>

\* and one that panics sends nothing
C31_NothingOnPanic ==
    (interactive_out.op = "send_tx_buffer" /\ interactive_out.panic) =>
        interactive_out.sent = <<>>

---------------------------------------------------------------------------
(* The input line from InteractiveMode::new on, with any character key *)

\* the character keys pressed: hex digits, the space, and a letter that is
\* no hex digit
TypedChars == InputChars \cup {"z"}

InitKeys ==
    /\ InitCoord
    /\ InitUi

KeyCharAny == \E x \in TypedChars :
    /\ ~interactive_out.panic
    /\ Len(interactive.send_buffer) < MaxInputLen
    /\ interactive' = push_char(interactive, x)
    /\ interactive_out' = NoInputOut
    /\ UNCHANGED <<coord_vars, app, analyzer, analyzer_view, settings, settings_out, config_file>>

NextKeys ==
    \/ RotateInputMode
    \/ RotateCrlfSetting
    \/ KeyCharAny
    \/ Backspace
    \/ SendTxBuffer

SpecKeys == InitKeys /\ [][NextKeys]_vars

HexOrSpace(x) == is_ascii_hexdigit(x) \/ x = " "

\* C37: after any sequence of key events (character keys, Backspace, F3,
\* F4, Enter), whenever input_mode is Hex the send buffer contains only
\* ASCII hex digits and spaces, so that Enter never reaches a failing digit
\* conversion.  rotate_input_mode keeps what was typed in Default mode.
C37_HexBufferClean ==
    interactive.input_mode = "Hex" =>
        \A i \in 1..Len(interactive.send_buffer) :
            HexOrSpace(interactive.send_buffer[i])

\* the consequence the claim draws, which fails with it: an Enter in Hex
\* mode on a buffer typed from InteractiveMode::new on does not panic
C37_EnterConverts ==
    (interactive_out.op = "send_tx_buffer"
        /\ interactive_out.pre.send_buffer # <<>>
        /\ \A i \in 1..Len(interactive_out.pre.send_buffer) :
               interactive_out.pre.send_buffer[i] # " ")
    => ~interactive_out.panic

\* what does hold: a character that enters the buffer while the mode is Hex
\* is a hex digit or a space
C37_HexTypingFiltered ==
    [][(interactive.input_mode = "Hex"
          /\ Len(interactive'.send_buffer) = Len(interactive.send_buffer) + 1)
       => HexOrSpace(interactive'.send_buffer[Len(interactive'.send_buffer)])]_vars

---------------------------------------------------------------------------
(* The program of main.rs: the main loop draws a frame and handles a key,
   and the thread of App::port_background_thread runs beside it.  The
   fields of the App are held by app (mode), settings (port, stopbits,
   parity, databits), interactive (send_buffer, input_mode, crlf), analyzer
   (scroll_offset, analyzer_cursor_pos, analyzer_endianness, display_mode)
   and display_history *)

MaxKeys == 2       \* keys that send no command, in one behaviour

\* the characters typed in Interactive mode
MainChars == {"h"}

\* the height of the list of main.rs's frame
MainHeights == {4}

\* successful reads of the thread of main.rs, in one behaviour
MainMaxReads == 1

\* what a handler does to the App: the command it sends and the mode it sets
Entered(cmd, mode) == [cmd |-> cmd, mode |-> mode]

\* enter_normal_mode with the mode left as it is
enter_normal_mode_KeepsMode == Entered(CmdStop, app.mode)

enter_normal_mode == Entered(CmdStop, "Normal")

enter_settings_mode == Entered(CmdStop, "Settings")

enter_analyzer_mode == Entered(CmdStop, "Analyzer")

\* enter_interactive_mode with the port opened: the Start it sends, the mode
\* being Interactive from its first statement on
enter_interactive_mode == Entered(CmdStart(next_ctx + 1), "Interactive")

\* App::run before the loop: rotate_port, then the default parameters
InitMain ==
    /\ InitCoord
    /\ app = AppDefault
    /\ \E ports \in PortLists :
          settings = rotate_port(SettingsModeNew(""), ports)
    /\ settings_out = NoPortResult
    /\ config_file = NoFile
    /\ analyzer = AnalyzerModeNew
    /\ analyzer_view = NoView
    /\ interactive = InteractiveModeNew
    /\ interactive_out = NoInputOut

\* the fields of the App that build_list_items and render_analyzer read:
\* the cursor is on the first DataEvent drawn, in Analyzer mode
AppAnalyzer ==
    [analyzer EXCEPT !.active = app.mode = "Analyzer",
                     !.analyzer_cursor_line = 0]

\* rotate_display_mode
rotate_display_mode(a) ==
    [a EXCEPT !.active_display_mode = RotateIn(DISPLAY_MODES, @)]

\* `x as u8` of a typed character
as_u8(x) == Position(PRINTABLE, x) + 32

\* send_tx_buffer of main.rs: the bytes of the Send command
MainSent(m, r) ==
    apply_crlf_setting(
        IF m.input_mode = "Hex" THEN r.send_buffer
        ELSE [i \in 1..Len(r.send_buffer) |-> as_u8(r.send_buffer[i])],
        m.crlf)

\* the variables of the thread that a key does not touch
key_rest == <<state, last_entry, data_to_send, pc, events, now, dropped,
              n_reads, produced, iter_cmd, iter_pre, iter_log, wire,
              stopped_sends, front_alive, pending_reads>>

\* a key is handled once a frame has been drawn, by the main thread in its
\* loop; after it the frame on the screen is that of the state before
MainTurn == front_alive /\ analyzer_view.op = "render" /\ app.at = "loop"
MainStale == View("stale", AnalyzerModeNew, NoFrame, NoPanel)

\* send_command(e.cmd), from the loop or from inside enter_interactive_mode,
\* m being the input line the handler leaves.  `self.mode = e.mode` is the
\* statement after the send in enter_normal_mode, enter_settings_mode and
\* enter_analyzer_mode: the thread can take the command before it is
\* executed.  Where the handler leaves the mode as it is, it is over with
\* the send
AppSend(e, m) ==
    /\ front_alive
    /\ n_cmds < MaxCmds
    /\ app' = [app EXCEPT !.cmds = Append(@, e.cmd.type),
                          !.at = IF e.mode = app.mode THEN "loop" ELSE "sent",
                          !.to = e.mode]
    /\ interactive' = m
    /\ analyzer_view' = MainStale
    /\ cmd_chan' = Append(cmd_chan, e.cmd)
    /\ sent_at' = Append(sent_at, IF e.cmd.type = "Stop"
                                   THEN SentAt(state.tag, Len(cmd_chan))
                                   ELSE NoSentAt)
    /\ n_cmds' = n_cmds + 1
    /\ next_ctx' = IF e.cmd.type = "Start" THEN e.cmd.ctx ELSE next_ctx
    /\ UNCHANGED <<key_rest, display_history, analyzer, settings,
                   settings_out, config_file, interactive_out>>

\* the main thread ends, by a panic or by leaving run(): the App is gone,
\* the command sender and the event receiver with it
AppGone ==
    /\ front_alive
    /\ front_alive' = FALSE
    /\ events' = <<>>
    /\ app' = [app EXCEPT !.at = "loop", !.to = app.mode]
    /\ UNCHANGED <<state, last_entry, data_to_send, pc, cmd_chan,
                   display_history, now, dropped, next_ctx, n_cmds, n_reads,
                   produced, iter_cmd, iter_pre, iter_log, wire, stopped_sends,
                   sent_at, pending_reads>>
    /\ UNCHANGED <<analyzer, analyzer_view, settings, settings_out,
                   config_file, interactive, interactive_out>>

\* a key that sends no command has been handled: the fields it leaves
AppKey(s, m, a, history) ==
    /\ MainTurn
    /\ app.keys < MaxKeys
    /\ app' = [app EXCEPT !.keys = @ + 1]
    /\ settings' = s
    /\ interactive' = m
    /\ analyzer' = a
    /\ display_history' = history
    /\ analyzer_view' = MainStale
    /\ UNCHANGED <<key_rest, cmd_chan, sent_at, n_cmds, next_ctx,
                   settings_out, config_file, interactive_out>>

\* handle_key_event: Esc outside Normal mode
KeyEsc ==
    /\ MainTurn
    /\ app.mode # "Normal"
    /\ AppSend(enter_normal_mode, interactive)

\* do_normal_mode: Esc, exit(): `self.exit = true`; the handler returns to
\* the loop of run(), which sleeps 25 ms before it tests the flag
KeyEscNormal ==
    /\ MainTurn
    /\ app.mode = "Normal"
    /\ app' = [app EXCEPT !.at = "exit"]
    /\ UNCHANGED <<key_rest, cmd_chan, sent_at, n_cmds, next_ctx,
                   display_history>>
    /\ UNCHANGED <<analyzer, analyzer_view, settings, settings_out,
                   config_file, interactive, interactive_out>>

\* run(): the sleep after the Esc is over, `while !self.exit` ends the loop,
\* run() returns Ok and main drops the App, its event receiver with it
RunReturns ==
    /\ app.at = "exit"
    /\ AppGone

\* do_normal_mode: 's'
KeySettings ==
    /\ MainTurn
    /\ app.mode = "Normal"
    /\ AppSend(enter_settings_mode, interactive)

\* do_normal_mode: 'a'
KeyAnalyzer ==
    /\ MainTurn
    /\ app.mode = "Normal"
    /\ AppSend(enter_analyzer_mode, interactive)

\* enter_normal_mode, enter_settings_mode, enter_analyzer_mode: the
\* statement after the send, `self.mode = ..`
ModeSet ==
    /\ front_alive
    /\ app.at = "sent"
    /\ app' = [app EXCEPT !.mode = app.to, !.at = "loop"]
    /\ UNCHANGED <<key_rest, cmd_chan, sent_at, n_cmds, next_ctx,
                   display_history>>
    /\ UNCHANGED <<analyzer, analyzer_view, settings, settings_out,
                   config_file, interactive, interactive_out>>

\* do_settings_mode: Enter, and do_normal_mode: 'i': enter_interactive_mode,
\* its first statement `self.mode = Mode::Interactive`; the main thread then
\* is in SerialPort::open, set_read_timeout, set_write_timeout and flush
KeyInteractive ==
    /\ MainTurn
    /\ app.mode \in {"Settings", "Normal"}
    /\ n_cmds < MaxCmds
    /\ app' = [app EXCEPT !.mode = "Interactive", !.at = "opening",
                          !.to = "Interactive"]
    /\ analyzer_view' = MainStale
    /\ UNCHANGED <<key_rest, cmd_chan, sent_at, n_cmds, next_ctx,
                   display_history>>
    /\ UNCHANGED <<analyzer, settings, settings_out, config_file,
                   interactive, interactive_out>>

\* enter_interactive_mode: the open, the two timeouts and the flush have
\* passed (the result of discard_buffers is not looked at), the Start
\* command is sent with the port
PortOpened ==
    /\ app.at = "opening"
    /\ AppSend(enter_interactive_mode, interactive)

\* enter_interactive_mode: the open, a timeout or the flush fails and the
\* `expect` panics, with the mode set and no command sent
PortFailed ==
    /\ app.at = "opening"
    /\ AppGone

\* do_interactive_mode: Enter, send_tx_buffer; apply_input_mode may panic
KeyEnter == \E overflow_checks \in BOOLEAN :
    /\ MainTurn
    /\ app.mode = "Interactive"
    /\ LET r == send_tx_buffer(interactive, overflow_checks)
       IN  IF r.panic THEN AppGone
           ELSE AppSend(Entered(CmdSend(MainSent(interactive, r)),
                                "Interactive"),
                        [interactive EXCEPT !.send_buffer = r.left])

\* handle_key_event: F10, display_history.clear(); no mode has an arm for it
KeyF10 ==
    /\ AppKey(settings, interactive, analyzer, <<>>)

\* do_settings_mode: 'p', 's', 'a', 'd', 'm', 'c'
MainRotatePort == \E ports \in PortLists :
    /\ app.mode = "Settings"
    /\ AppKey(rotate_port(settings, ports), interactive, analyzer,
              display_history)

MainRotateStopbits ==
    /\ app.mode = "Settings"
    /\ AppKey(rotate_stopbits(settings), interactive, analyzer,
              display_history)

MainRotateParity ==
    /\ app.mode = "Settings"
    /\ AppKey(rotate_parity(settings), interactive, analyzer,
              display_history)

MainRotateDatabits ==
    /\ app.mode = "Settings"
    /\ AppKey(rotate_databits(settings), interactive, analyzer,
              display_history)

MainRotateCrlf ==
    /\ app.mode = "Settings"
    /\ AppKey(settings, rotate_crlf_setting(interactive), analyzer,
              display_history)

\* 'm' in Settings mode, F2 in Interactive and in Analyzer mode
MainRotateDisplayMode ==
    /\ app.mode # "Normal"
    /\ AppKey(settings, interactive, rotate_display_mode(analyzer),
              display_history)

\* do_interactive_mode: Char(x), Backspace, F3
MainChar == \E x \in MainChars :
    /\ app.mode = "Interactive"
    /\ AppKey(settings, push_char(interactive, x), analyzer, display_history)

MainBackspace ==
    /\ app.mode = "Interactive"
    /\ AppKey(settings, pop_char(interactive), analyzer, display_history)

MainRotateInputMode ==
    /\ app.mode = "Interactive"
    /\ AppKey(settings, rotate_input_mode(interactive), analyzer,
              display_history)

\* Up and Down in Interactive and in Analyzer mode
MainScrollUp ==
    /\ app.mode \in {"Interactive", "Analyzer"}
    /\ AppKey(settings, interactive, scroll_up(analyzer), display_history)

MainScrollDown ==
    /\ app.mode \in {"Interactive", "Analyzer"}
    /\ AppKey(settings, interactive, scroll_down(analyzer), display_history)

\* do_analyzer_mode: Left, Right, 'e'
MainCursorLeft ==
    /\ app.mode = "Analyzer"
    /\ AppKey(settings, interactive, cursor_left(analyzer), display_history)

MainCursorRight ==
    /\ app.mode = "Analyzer"
    /\ AppKey(settings, interactive, cursor_right(analyzer), display_history)

MainEndianness ==
    /\ app.mode = "Analyzer"
    /\ AppKey(settings, interactive, rotate_analyzer_endianness(analyzer),
              display_history)

\* terminal.draw(|frame| self.draw(frame)): if the closure is run (drawn),
\* draw_rxtxbuffer moves the events of the channel to the history, builds
\* the list and renders the analyzer, and a panic in it ends the main
\* thread; err is the io::Result of terminal.draw being an Err, before the
\* closure has run or after it has run without a panic: run() returns it in
\* whatever mode the App is in and main drops the App
terminal_draw(drawn, err, num_rows, overflow_checks) ==
    /\ app.at = "loop"
    /\ display_history' = IF drawn THEN display_history \o events
                           ELSE display_history
    /\ events' = <<>>
    /\ analyzer_view' = IF drawn
                        THEN render(AppAnalyzer, display_history', num_rows,
                                    overflow_checks)
                        ELSE analyzer_view
    /\ LET panic == /\ drawn
                    /\ (analyzer_view'.line.panic \/ analyzer_view'.panel.panic)
       IN  /\ err => ~panic
           /\ front_alive' = (~err /\ ~panic)
    /\ UNCHANGED <<state, last_entry, data_to_send, pc, cmd_chan, now,
                   dropped, next_ctx, n_cmds, n_reads, produced, iter_cmd,
                   iter_pre, iter_log, wire, stopped_sends, sent_at,
                   pending_reads>>
    /\ UNCHANGED <<app, analyzer, settings, settings_out, config_file,
                   interactive, interactive_out>>

\* run(): `terminal.draw(|frame| self.draw(frame))?`, with every way it
\* ends: Ok, a panic of the closure, or Err with the closure run or not; a
\* result of Ok means the closure has run
Draw == \E err \in BOOLEAN : \E drawn \in IF err THEN BOOLEAN ELSE {TRUE} :
        \E num_rows \in MainHeights :
        \E overflow_checks \in IF drawn THEN BOOLEAN ELSE {FALSE} :
    /\ front_alive
    /\ terminal_draw(drawn, err, num_rows, overflow_checks)

\* run(): `self.handle_events()?` returns the Err of event::poll or of
\* event::read; no key is handled, run() returns the Err in whatever mode
\* the App is in and main drops the App
EventsErr ==
    /\ MainTurn
    /\ AppGone

\* the thread of main.rs, the top of its loop: data_to_send = vec![],
\* receive_command, match cmd, match state
ThreadCommand ==
    /\ pc = "cmd"
    /\ CoordCommand

\* the thread of main.rs: p.write, and the event sent with unwrap
ThreadWrite == \E ok \in BOOLEAN :
    /\ pc = "write"
    /\ LET out == IF front_alive THEN WriteEmit(data_to_send, ok, 0) ELSE <<>>
       IN  /\ events' = events \o out
           /\ produced' = produced \o out
           /\ iter_log' = iter_log \o <<LogWrite(data_to_send, ok, 0)>>
                                    \o LogEmits(out, 0)
    /\ wire' = Append(wire, data_to_send)
    /\ pc' = IF front_alive THEN "read" ELSE "panicked"
    /\ dropped' = IF front_alive THEN dropped ELSE dropped \cup {state.ctx}
    /\ UNCHANGED <<state, last_entry, data_to_send, cmd_chan, display_history,
                   now, next_ctx, n_cmds, n_reads, iter_cmd, iter_pre,
                   stopped_sends, front_alive, sent_at, pending_reads>>
    /\ UNCHANGED ui_vars

\* the thread of main.rs: p.read returns Err
ThreadReadErr ==
    /\ pc = "read"
    /\ iter_log' = Append(iter_log, LogRead(<<>>, FALSE, 0))
    /\ pc' = "cmd"
    /\ UNCHANGED <<state, last_entry, data_to_send, cmd_chan, events,
                   display_history, now, dropped, next_ctx, n_cmds, n_reads,
                   produced, iter_cmd, iter_pre, wire, stopped_sends,
                   front_alive, sent_at, pending_reads>>
    /\ UNCHANGED ui_vars

\* the thread of main.rs: p.read returns Ok(n), of no byte too; the bytes
\* are sent as a DataEvent at once, with unwrap, and data_to_send is cleared
ThreadRead == \E chunk \in RxChunks(n_reads + 1) :
    /\ pc = "read"
    /\ n_reads < MainMaxReads
    /\ LET out == IF front_alive
                  THEN <<DataEvent(HistoryEntry(0, "Rx", chunk))>> ELSE <<>>
       IN  /\ events' = events \o out
           /\ produced' = produced \o out
           /\ iter_log' = iter_log \o <<LogRead(chunk, TRUE, 0)>>
                                    \o LogEmits(out, 0)
    /\ pc' = IF front_alive THEN "cmd" ELSE "panicked"
    /\ dropped' = IF front_alive THEN dropped ELSE dropped \cup {state.ctx}
    /\ data_to_send' = IF front_alive THEN <<>> ELSE data_to_send
    /\ n_reads' = n_reads + 1
    /\ UNCHANGED <<state, last_entry, cmd_chan, display_history, now,
                   next_ctx, n_cmds, iter_cmd, iter_pre, wire, stopped_sends,
                   front_alive, sent_at, pending_reads>>
    /\ UNCHANGED ui_vars

NextMain ==
    \/ KeyEsc
    \/ KeyEscNormal
    \/ RunReturns
    \/ KeySettings
    \/ KeyAnalyzer
    \/ KeyInteractive
    \/ PortOpened
    \/ PortFailed
    \/ ModeSet
    \/ KeyEnter
    \/ KeyF10
    \/ MainRotatePort
    \/ MainRotateStopbits
    \/ MainRotateParity
    \/ MainRotateDatabits
    \/ MainRotateCrlf
    \/ MainRotateDisplayMode
    \/ MainChar
    \/ MainBackspace
    \/ MainRotateInputMode
    \/ MainScrollUp
    \/ MainScrollDown
    \/ MainCursorLeft
    \/ MainCursorRight
    \/ MainEndianness
    \/ Draw
    \/ EventsErr
    \/ ThreadCommand
    \/ ThreadWrite
    \/ ThreadReadErr
    \/ ThreadRead

SpecMain == InitMain /\ [][NextMain]_vars

\* the commands sent have the shape (Stop* Start Send*)* Stop*: a Start is
\* sent only when the last lifecycle command was a Stop or there was none,
\* and every Send follows a Start with no Stop in between
CommandShape(cmds) ==
    \A i \in 1..Len(cmds) :
        /\ cmds[i] = "Start" => (i = 1 \/ cmds[i - 1] = "Stop")
        /\ cmds[i] = "Send" => (i > 1 /\ cmds[i - 1] \in {"Start", "Send"})

\* C38 as claimed: the commands the front end of main.rs sends have the
\* shape (Stop* Start Send*)* Stop*; once the command channel is drained the
\* coordinator is Running exactly when the mode is Interactive; and the
\* coordinator never receives a Start while Running or a Send while Stopped.
C38_Original ==
    /\ CommandShape(app.cmds)
    /\ (front_alive /\ cmd_chan = <<>>) =>
          (~StateEq(state, Stopped) <=> app.mode = "Interactive")
    /\ iter_cmd.type = "Start" => StateEq(iter_pre.state, Stopped)
    /\ iter_cmd.type = "Send" => ~StateEq(iter_pre.state, Stopped)

\* C38 amended: the commands the front end of main.rs sends have the shape
\* (Stop* Start Send*)* Stop*; once the command channel is drained and no
\* enter_*_mode call is in progress, the coordinator is Running exactly
\* when the mode is Interactive; a coordinator that is Running always finds
\* the mode Interactive; and the coordinator never receives a Start while
\* Running or a Send while Stopped.
C38_CommandShape ==
    /\ CommandShape(app.cmds)
    /\ (front_alive /\ cmd_chan = <<>> /\ app.at \notin {"opening", "sent"}) =>
          (~StateEq(state, Stopped) <=> app.mode = "Interactive")
    /\ (front_alive /\ cmd_chan = <<>> /\ ~StateEq(state, Stopped)) =>
          app.mode = "Interactive"
    /\ iter_cmd.type = "Start" => StateEq(iter_pre.state, Stopped)
    /\ iter_cmd.type = "Send" => ~StateEq(iter_pre.state, Stopped)

\* what the claim leaves out: inside enter_interactive_mode the mode is
\* Interactive while the port is being opened, nothing is on the command
\* channel and the coordinator is Stopped
C38_Opening ==
    /\ front_alive
    /\ app.at = "opening"
    /\ app.mode = "Interactive"
    /\ cmd_chan = <<>>
    /\ StateEq(state, Stopped)

\* Start, Send, Stop have been sent and consumed, a Send received while
\* Running among them, and the program is back in Normal mode
C38_Witness ==
    /\ app.at = "loop"
    /\ app.mode = "Normal"
    /\ app.cmds = <<"Start", "Send", "Stop">>
    /\ cmd_chan = <<>>
    /\ front_alive
    /\ StateEq(state, Stopped)
    /\ Len(wire) > 0

\* a second Start is sent after a Stop and received while Stopped
C38_WitnessRestart ==
    /\ app.at = "loop"
    /\ front_alive
    /\ ~StateEq(state, Stopped)
    /\ app.mode = "Interactive"
    /\ app.cmds = <<"Start", "Stop", "Start">>
    /\ cmd_chan = <<>>
    /\ iter_cmd.type = "Start"
    /\ Len(SelectSeq(produced, LAMBDA e : e.type = "Started")) = 2

---------------------------------------------------------------------------
(* Claims on the event sequence as a whole *)

\* the payloads of the Rx DataEvents of an event sequence, concatenated
RECURSIVE RxPayloads(_)
RxPayloads(evs) ==
    IF evs = <<>> THEN <<>>
    ELSE (IF Head(evs).type = "DataEvent" /\ Head(evs).entry.rx_tx = "Rx"
          THEN Head(evs).entry.data ELSE <<>>) \o RxPayloads(Tail(evs))

\* every received byte the coordinator has emitted or still holds
RxStream == RxPayloads(produced) \o last_entry.data

\* the chunk returned by the port read of this step, if the step is one
ChunkRead ==
    IF n_reads' = n_reads + 1 THEN iter_log'[Len(iter_log) + 1].data ELSE <<>>

\* C32: received bytes are conserved.  The payloads of the Rx DataEvents
\* emitted so far followed by the pending entry's data are the chunks
\* returned by the port reads, in read order: the stream starts empty, a
\* read appends its chunk to it, no other step changes it.
C32_Conserved == RxStream = <<>> /\ [][RxStream' = RxStream \o ChunkRead]_vars

\* two chunks read, the first emitted as an Rx DataEvent, the second pending
C32_Witness ==
    /\ RxPayloads(produced) = <<RxBase + 1, RxBase + 1>>
    /\ last_entry.data = <<RxBase + 2, RxBase + 2>>

\* the Started and Stopped events of an event sequence, in order
Lifecycle(evs) == SelectSeq(evs, LAMBDA e : e.type \in {"Started", "Stopped"})

\* C33: Started and Stopped events strictly alternate, beginning with
\* Started; the number of Started minus the number of Stopped is 1 when the
\* state is Running and 0 when it is Stopped.
C33_Alternation ==
    LET lc == Lifecycle(produced)
        started == Len(SelectSeq(lc, LAMBDA e : e.type = "Started"))
        stopped == Len(SelectSeq(lc, LAMBDA e : e.type = "Stopped"))
    IN  /\ \A i \in 1..Len(lc) :
               lc[i].type = IF i % 2 = 1 THEN "Started" ELSE "Stopped"
        /\ started - stopped = IF StateEq(state, Stopped) THEN 0 ELSE 1

\* Started, Stopped, Started: the coordinator is Running for the second time
C33_Witness ==
    /\ Len(Lifecycle(produced)) = 3
    /\ ~StateEq(state, Stopped)

\* the Data and Error events lie inside a Running period: the lifecycle
\* event last sent before each of them is a Started
InsideRunning(evs) ==
    \A i \in 1..Len(evs) :
        evs[i].type \in {"DataEvent", "ErrorEvent"} =>
            LET before == Lifecycle(SubSeq(evs, 1, i - 1))
            IN  before # <<>> /\ before[Len(before)].type = "Started"

\* C34: DataEvents and ErrorEvents are produced only while the coordinator
\* is Running: each lies after a Started and before the Stopped that follows
\* it, none before the first Started or between a Stopped and the next
\* Started.
C34_OnlyWhileRunning == InsideRunning(produced)

\* an ErrorEvent and a DataEvent in a first Running period, which has ended
C34_Witness ==
    /\ \E i, j \in 1..Len(produced) :
          /\ produced[i].type = "ErrorEvent"
          /\ produced[j].type = "DataEvent"
    /\ produced[Len(produced)].type = "Stopped"

\* the entries of the DataEvents of an event sequence that carry bytes
DataEntries(evs) ==
    LET des == SelectSeq(evs, LAMBDA e : e.type = "DataEvent" /\ e.entry.data # <<>>)
    IN  [i \in 1..Len(des) |-> des[i].entry]

NonDecreasing(es) ==
    \A i, j \in 1..Len(es) : i < j => es[i].timestamp <= es[j].timestamp

\* The coordinator over three coalescing windows: the clock moves by less
\* than a window or by a whole window at a time (and by the drift inside
\* handle_received_bytes) up to OrderTime, and OrderReads reads return Ok,
\* so that a second and a third pending entry are stamped and two entries
\* with bytes are flushed
OrderTime == 12
OrderReads == 3
OrderSteps == {3, COALESCE_MS}

TickOrder == \E ms \in OrderSteps :
    /\ now + ms <= OrderTime
    /\ now' = now + ms
    /\ UNCHANGED <<state, last_entry, data_to_send, pc, cmd_chan, events,
                   display_history, dropped, next_ctx, n_cmds, n_reads,
                   produced, iter_cmd, iter_pre, iter_log, wire, stopped_sends,
                   front_alive, sent_at, pending_reads>>
    /\ UNCHANGED ui_vars

ReadOrder == \E chunk \in RxChunks(n_reads + 1), drift \in Drifts :
    CoordReadOk(chunk, drift, OrderReads)

NextOrder ==
    \/ SendStop
    \/ SendStart
    \/ SendData
    \/ TickOrder
    \/ CoordCommand
    \/ CoordWriteAny
    \/ CoordReadErr
    \/ ReadOrder

SpecOrder == Init /\ [][NextOrder]_vars

\* C35 as claimed: the DataEvents appear on the event channel in
\* non-decreasing timestamp order, for every interleaving of Sends and reads.
\* (Entries without bytes are left out of the comparison.)
C35_Original == NonDecreasing(DataEntries(produced))

\* C35 amended: the DataEvents of one direction appear in non-decreasing
\* timestamp order.  A Tx entry is sent when it is stamped, an Rx entry when
\* a later chunk flushes it, so an Rx DataEvent can follow a Tx DataEvent
\* with a later timestamp.
C35_OrderPerDirection ==
    LET des == SelectSeq(produced, LAMBDA e : e.type = "DataEvent")
        es == [i \in 1..Len(des) |-> des[i].entry]
    IN  \A dir \in {"Rx", "Tx"} :
            NonDecreasing(SelectSeq(es, LAMBDA e : e.rx_tx = dir))

\* two Rx DataEvents with bytes in the order of their different timestamps,
\* and between them a Tx DataEvent stamped later than the Rx DataEvent that
\* follows it
C35_Witness ==
    LET es == DataEntries(produced)
    IN  \E i, k, j \in 1..Len(es) :
            /\ i < k /\ k < j
            /\ es[i].rx_tx = "Rx" /\ es[k].rx_tx = "Tx" /\ es[j].rx_tx = "Rx"
            /\ es[i].timestamp < es[j].timestamp
            /\ es[j].timestamp < es[k].timestamp

\* C36: an Rx DataEvent emitted during one Running period contains only
\* bytes read during that period; bytes pending when a Stop was consumed are
\* not emitted after a later Started.  last_entry lives outside the loop and
\* no arm of `match cmd` touches it, so the bytes pending at a Stop are sent
\* by the first flush of the next Running period.
C36_SamePeriod ==
    \A i \in 1..Len(iter_log) :
        (iter_log[i].k = "emit" /\ iter_log[i].ev.type = "DataEvent"
                                /\ iter_log[i].ev.entry.rx_tx = "Rx") =>
            \A j \in 1..Len(iter_pre.pending_reads) :
                iter_pre.pending_reads[j].data # <<>> =>
                    iter_pre.pending_reads[j].period = Period(produced)

\* what does hold: a Stop leaves the pending entry as it is
C36_StopKeepsPending ==
    [][(iter_cmd'.type = "Stop" /\ pc = "cmd" /\ pc' = "cmd")
           => last_entry' = last_entry]_vars

---------------------------------------------------------------------------
(* Progress of the coordinator *)

\* The coordinator loop is scheduled fairly and every port write and read
\* returns (the timeouts of 2500 ms and 125 ms bound them); the front end is
\* under no obligation to send anything
Fairness ==
    /\ WF_vars(CoordCommand)
    /\ WF_vars(CoordWriteAny)
    /\ WF_vars(CoordReadErr \/ CoordRead)

\* the clock advancing by a whole coalescing window at once
Elapse ==
    /\ now + COALESCE_MS <= MaxTime
    /\ now' = now + COALESCE_MS
    /\ UNCHANGED <<state, last_entry, data_to_send, pc, cmd_chan, events,
                   display_history, dropped, next_ctx, n_cmds, n_reads,
                   produced, iter_cmd, iter_pre, iter_log, wire, stopped_sends,
                   front_alive, sent_at, pending_reads>>
    /\ UNCHANGED ui_vars

\* the coordinator with a clock that moves in steps of a coalescing window
NextLive ==
    \/ Elapse
    \/ SendStop
    \/ SendStart
    \/ SendData
    \/ CoordCommand
    \/ CoordWriteAny
    \/ CoordReadErr
    \/ CoordRead

SpecLive == Init /\ [][NextLive]_vars /\ Fairness

\* commands taken off the command channel so far
Consumed == n_cmds - Len(cmd_chan)

Count(evs, type) == Len(SelectSeq(evs, LAMBDA e : e.type = type))

\* the iteration under way took a Start while Stopped / a Stop while Running
TookStart == iter_cmd.type = "Start" /\ StateEq(iter_pre.state, Stopped)
TookStop == iter_cmd.type = "Stop" /\ ~StateEq(iter_pre.state, Stopped)

\* C39: under fair scheduling of the coordinator loop, every port read and
\* write returning, every command placed on the command channel is
\* eventually consumed (the k-th command sent is eventually the k-th
\* consumed), every Start consumed while Stopped is eventually followed by
\* Started (the Started after the k Stopped sent before it), and every Stop
\* consumed while Running by Stopped (the k-th Stopped, after k Started).
C39_Progress ==
    /\ \A k \in 1..MaxCmds : (n_cmds >= k) ~> (Consumed >= k)
    /\ \A k \in 0..MaxCmds :
          (TookStart /\ Count(produced, "Stopped") = k)
              ~> (Count(produced, "Started") >= k + 1)
    /\ \A k \in 1..MaxCmds :
          (TookStop /\ Count(produced, "Started") = k)
              ~> (Count(produced, "Stopped") >= k)

\* three commands were placed and all consumed, a Start taken while Stopped
\* and a Stop taken while Running among them, each followed by its event
C39_Witness ==
    /\ n_cmds = MaxCmds
    /\ Consumed = MaxCmds
    /\ TookStop
    /\ Count(produced, "Started") = 1
    /\ Count(produced, "Stopped") = 1
    /\ wire # <<>>

====
